---- MODULE Spec2Model ----
(***************************************************************************)
(* Conversational job matching backend: the chat / extract-preferences     *)
(* endpoints (app/api/endpoints/conversation.py), the file-backed          *)
(* conversation store and embedding cache                                  *)
(* (app/services/conversation_storage.py) and the provider wrapper         *)
(* (app/services/openai_service.py).                                       *)
(*                                                                         *)
(* Strings that take part in file-name composition are sequences of        *)
(* one-character strings, so that f"{user_id}_{conversation_id}.json" is   *)
(* a concatenation and not an opaque pair.  Optional values are sequences  *)
(* of length 0 (None) or 1 (the value).  File contents are JSON texts,     *)
(* modelled as token sequences that are written by JsonDump and parsed by  *)
(* JsonLoad.  Every call that can raise in the source (file I/O, provider  *)
(* calls) takes its outcome from the environment record env of the         *)
(* request.                                                                *)
(***************************************************************************)
EXTENDS Integers, Sequences, FiniteSets, TLC

VARIABLES
    convFiles,   \* conversations_dir: file name -> file (JSON text + scalar fields)
    embFiles,    \* embeddings_dir: job id -> embedding record file
    catalog,     \* data/jobs.json: the sequence of job ids ("fixed catalog")
    clock,       \* datetime.now(), a logical reading
    uuidsUsed,   \* number of uuid4() values handed out so far
    reqs,        \* requests accepted by the server and not yet answered
    embedCount,  \* job id -> embeddings the provider has computed for the job
    db,          \* the database: the ids of the jobs table, the applications rows
    last         \* the request answered last: its input, response and call log

vars == <<convFiles, embFiles, catalog, clock, uuidsUsed, reqs, embedCount, db, last>>

----------------------------------------------------------------------------
(* Bounds of the model *)

MaxOps == 2          \* requests handled in one behaviour
MaxFaults == 1       \* failing calls (I/O or provider) within one request
MaxSeed == 3         \* exchanges already stored when the behaviour starts
MaxUuids == 2        \* uuid4() values available
MaxReqs == 2         \* requests in flight at the same time
MaxTurns == 2        \* turns of a transcript handed to the store directly
MaxFacets == 2       \* facets a profile put to the vectorizer or the ranker sets
MaxCatalog == 3      \* items of a catalog put to the ranker
MaxSaves == 3        \* saves that come before a listing

(* Program constants *)

ExtractionThreshold == 6     \* conversation.py:97  len(messages) >= 6
TopK == 10                   \* conversation.py:280 top_k=10

----------------------------------------------------------------------------
(* Optional values *)

None == <<>>
Some(x) == <<x>>
IsNone(o) == Len(o) = 0
Get(o) == o[1]

Range(s) == {s[i] : i \in 1..Len(s)}

\* The orders in which a directory can yield the entries S: Path.glob gives
\* the entries in the order of the file system, which the program does not fix
DirOrders(S) ==
    {order \in [1..Cardinality(S) -> S] :
        \A i, k \in 1..Cardinality(S) : order[i] = order[k] => i = k}

----------------------------------------------------------------------------
(* Input domains *)

Users == {<<"a">>}
ConvIds == {<<"c">>}
\* ChatRequest.conversation_id: Optional[str]; the empty string is a str
ConvIdInputs == {None, Some(<<>>)} \cup {Some(c) : c \in ConvIds}
Msgs == {"m1", "m2"}
Replies == {"r1"}
Seeds == {"s1", "s2"}
Uuid(n) == <<"u", IF n = 1 THEN "1" ELSE IF n = 2 THEN "2" ELSE "3">>

\* A database without jobs and without applications
EmptyDb == [jobs |-> {}, applications |-> <<>>]

\* Calls that can raise or return unusable data, in source order
HeadFaults == {"load", "reply", "save_open", "save_write"}
TailFaults == {"extract", "extract_truncated", "extract_text", "extract_conflict",
               "extract_excluding", "extract_nulls", "extract_avoid_all",
               "extract_mistyped", "qembed",
               "emb_read1", "jobs1", "embed1", "embed2", "emb_open1", "emb_open2",
               "emb_write1", "emb_write2", "emb_read2", "jobs2", "search"}
ChatFaults == HeadFaults \cup TailFaults
ExtractFaults == {"load"} \cup TailFaults
ListFaults == {"list"}
DeleteFaults == {"unlink"}

\* The environment of one request: the calls that fail in it, the reply of
\* the provider and what varies between two embedding calls on one text
RECURSIVE FaultSets(_, _)
FaultSets(points, n) ==
    IF n = 0 THEN {{}}
    ELSE LET smaller == FaultSets(points, n - 1)
         IN smaller \cup {F \cup {p} : F \in smaller, p \in points}

\* The same with the order in which embeddings_dir yields its files
MatchEnvsOf(points, seeds) ==
    [faults : FaultSets(points, MaxFaults),
     reply : Replies,
     seed : seeds,
     order : DirOrders({"j1", "j2"})]

EnvsOf(points, seeds) ==
    [faults : FaultSets(points, MaxFaults),
     reply : Replies,
     seed : seeds]

\* What the provider returns as the content of the extraction completion
ContentKind(faults) ==
    IF "extract_truncated" \in faults THEN "truncated"
    ELSE IF "extract_text" \in faults THEN "text"
    ELSE IF "extract_conflict" \in faults THEN "conflict"
    ELSE IF "extract_excluding" \in faults THEN "excluding"
    ELSE IF "extract_nulls" \in faults THEN "nulls"
    ELSE IF "extract_avoid_all" \in faults THEN "avoid_all"
    ELSE IF "extract_mistyped" \in faults THEN "mistyped"
    ELSE "object"

----------------------------------------------------------------------------
(* JSON texts.  A message list is written as                               *)
(*   [ { role content } { role content } ... ]                             *)
(* one token per bracket and per string.  JsonLoad accepts exactly the     *)
(* complete texts; every other token sequence is a JSONDecodeError.        *)

Message(role, content) == [role |-> role, content |-> content]

RECURSIVE JsonDumpItems(_)
JsonDumpItems(messages) ==
    IF messages = <<>> THEN <<>>
    ELSE <<"{", Head(messages).role, Head(messages).content, "}">>
         \o JsonDumpItems(Tail(messages))

\* json.dump(conversation_data, f): the "messages" array of the document
JsonDump(messages) == <<"[">> \o JsonDumpItems(messages) \o <<"]">>

\* A parser that builds the list back to front
RECURSIVE JsonParseItemsReversed(_)
JsonParseItemsReversed(toks) ==
    IF toks = <<>> THEN Some(<<>>)
    ELSE IF Len(toks) < 4 \/ toks[1] # "{" \/ toks[4] # "}" THEN None
    ELSE LET rest == JsonParseItemsReversed(SubSeq(toks, 5, Len(toks)))
         IN IF IsNone(rest) THEN None
            ELSE Some(Get(rest) \o <<Message(toks[2], toks[3])>>)

RECURSIVE JsonParseItems(_)
JsonParseItems(toks) ==
    IF toks = <<>> THEN Some(<<>>)
    ELSE IF Len(toks) < 4 \/ toks[1] # "{" \/ toks[4] # "}" THEN None
    ELSE LET rest == JsonParseItems(SubSeq(toks, 5, Len(toks)))
         IN IF IsNone(rest) THEN None
            ELSE Some(<<Message(toks[2], toks[3])>> \o Get(rest))

\* json.load(f): None stands for the JSONDecodeError
JsonLoad(text) ==
    IF Len(text) < 2 \/ text[1] # "[" \/ text[Len(text)] # "]" THEN None
    ELSE JsonParseItems(SubSeq(text, 2, Len(text) - 1))

----------------------------------------------------------------------------
(* ConversationStorage: conversations *)

\* f"{user_id}_{conversation_id}.json"
FileName(user_id, conversation_id) ==
    user_id \o <<"_">> \o conversation_id \o <<".json">>

Exists(files, name) == name \in DOMAIN files

WriteFile(files, name, file) ==
    [n \in DOMAIN files \cup {name} |-> IF n = name THEN file ELSE files[n]]

RemoveFile(files, name) == [n \in DOMAIN files \ {name} |-> files[n]]

\* The document save_conversation builds (conversation_storage.py:52-59)
ConversationFile(user_id, conversation_id, text, created_at, updated_at) ==
    [user_id |-> user_id, conversation_id |-> conversation_id, text |-> text,
     created_at |-> created_at, updated_at |-> updated_at]

\* save_conversation: returns the files afterwards and whether it raised.
\* open(file_path, 'w') truncates the file before json.dump writes to it:
\* when open raises the file is untouched, when a write raises the file is
\* left with an incomplete text (here: nothing written yet; every strict
\* prefix of a JSON text is equally unparsable).
\* metadata is None or Some([created_at |-> Optional timestamp]).
save_conversation(files, user_id, conversation_id, messages, metadata, now, faults) ==
    LET created_at == IF ~IsNone(metadata) THEN Get(metadata).created_at ELSE Some(now)
        file_path == FileName(user_id, conversation_id)
    IN  IF "save_open" \in faults
        THEN [files |-> files, raised |-> TRUE]
        ELSE IF "save_write" \in faults
        THEN [files |-> WriteFile(files, file_path,
                          ConversationFile(user_id, conversation_id, <<>>, created_at, now)),
              raised |-> TRUE]
        ELSE [files |-> WriteFile(files, file_path,
                          ConversationFile(user_id, conversation_id,
                                           JsonDump(messages), created_at, now)),
              raised |-> FALSE]

\* The dict json.load returns for a conversation file
ConversationData(file, messages) ==
    [user_id |-> file.user_id, conversation_id |-> file.conversation_id,
     messages |-> messages, created_at |-> file.created_at,
     updated_at |-> file.updated_at]

\* Reading one conversation file: the dict, or None for a raised exception
ReadConversationFile(file, ioerror) ==
    IF ioerror THEN None
    ELSE LET parsed == JsonLoad(file.text)
         IN IF IsNone(parsed) THEN None
            ELSE Some(ConversationData(file, Get(parsed)))

\* load_conversation: value is the returned Optional dict; failed tells that
\* an exception was caught and turned into None (conversation_storage.py:96-98)
load_conversation(files, user_id, conversation_id, faults) ==
    LET file_path == FileName(user_id, conversation_id)
    IN  IF ~Exists(files, file_path)
        THEN [value |-> None, failed |-> FALSE]
        ELSE LET read == ReadConversationFile(files[file_path], "load" \in faults)
             IN [value |-> read, failed |-> IsNone(read)]

\* delete_conversation: returns the files, the boolean result, and failed
delete_conversation(files, user_id, conversation_id, faults) ==
    LET file_path == FileName(user_id, conversation_id)
    IN  IF ~Exists(files, file_path)
        THEN [files |-> files, result |-> FALSE, failed |-> FALSE]
        ELSE IF "unlink" \in faults
        THEN [files |-> files, result |-> FALSE, failed |-> TRUE]
        ELSE [files |-> RemoveFile(files, file_path), result |-> TRUE, failed |-> FALSE]

\* The characters of a name: the token ".json" stands for five of them
RECURSIVE Chars(_)
Chars(name) ==
    IF name = <<>> THEN <<>>
    ELSE (IF Head(name) = ".json" THEN <<".", "j", "s", "o", "n">> ELSE <<Head(name)>>)
         \o Chars(Tail(name))

\* The printable characters in the order of their code points (without
\* the backquote, which no string of this module holds)
Ascii ==
    <<"!", "\"", "#", "$", "%", "&", "'", "(", ")", "*", "+", ",",
      "-", ".", "/", "0", "1", "2", "3", "4", "5", "6", "7", "8",
      "9", ":", ";", "<", "=", ">", "?", "@", "A", "B", "C", "D",
      "E", "F", "G", "H", "I", "J", "K", "L", "M", "N", "O", "P",
      "Q", "R", "S", "T", "U", "V", "W", "X", "Y", "Z", "[", "\\",
      "]", "^", "_", "a", "b", "c", "d", "e", "f", "g", "h",
      "i", "j", "k", "l", "m", "n", "o", "p", "q", "r", "s", "t",
      "u", "v", "w", "x", "y", "z", "{", "|", "}", "~">>

\* The place of a character in that order, 0 for any other
Ord(c) ==
    IF \E i \in 1..Len(Ascii) : Ascii[i] = c
    THEN CHOOSE i \in 1..Len(Ascii) : Ascii[i] = c
    ELSE 0

\* fnmatch: pat starts with "[".  The position of the "]" that closes the
\* character class, 0 when there is none and the "[" stands for itself; a
\* "]" that comes first in the class, or first behind "!", is a member
ClassEnd(pat) ==
    LET a == IF Len(pat) >= 2 /\ pat[2] = "!" THEN 3 ELSE 2
        b == IF Len(pat) >= a /\ pat[a] = "]" THEN a + 1 ELSE a
        ends == {k \in b..Len(pat) : pat[k] = "]"}
    IN  IF ends = {} THEN 0 ELSE CHOOSE k \in ends : \A e \in ends : k <= e

\* c is a member of the class text: x-y is the range of code points from x
\* to y (empty when x comes after y), anything else stands for itself
RECURSIVE ClassHas(_, _)
ClassHas(members, c) ==
    IF members = <<>> THEN FALSE
    ELSE IF Len(members) >= 3 /\ members[2] = "-"
    THEN \/ (Ord(members[1]) <= Ord(c) /\ Ord(c) <= Ord(members[3]))
         \/ ClassHas(SubSeq(members, 4, Len(members)), c)
    ELSE members[1] = c \/ ClassHas(Tail(members), c)

\* c matches the class between the brackets; "!" in front negates it
InClass(class, c) ==
    IF Head(class) = "!" THEN ~ClassHas(Tail(class), c) ELSE ClassHas(class, c)

\* fnmatch of one path component: "*" matches any run of characters, "?"
\* one character, "[...]" one character of the class
RECURSIVE FnMatch(_, _)
FnMatch(pat, name) ==
    IF pat = <<>> THEN name = <<>>
    ELSE IF Head(pat) = "*"
    THEN FnMatch(Tail(pat), name) \/ (name # <<>> /\ FnMatch(pat, Tail(name)))
    ELSE IF name = <<>> THEN FALSE
    ELSE IF Head(pat) = "?" THEN FnMatch(Tail(pat), Tail(name))
    ELSE IF Head(pat) = "[" /\ ClassEnd(pat) > 0
    THEN /\ InClass(SubSeq(pat, 2, ClassEnd(pat) - 1), Head(name))
         /\ FnMatch(SubSeq(pat, ClassEnd(pat) + 1, Len(pat)), Tail(name))
    ELSE Head(name) = Head(pat) /\ FnMatch(Tail(pat), Tail(name))

\* Path.glob raises ValueError for a pattern that holds "**" inside a
\* component
InvalidPattern(user_id) ==
    \E i \in 1..Len(user_id) - 1 : user_id[i] = "*" /\ user_id[i + 1] = "*"

\* conversations_dir.glob(f"{user_id}_*.json"): the characters * ? [ ] of
\* user_id are read as wildcards
GlobMatches(user_id, name) ==
    FnMatch(Chars(user_id \o <<"_", "*", ".json">>), Chars(name))

\* The files of the directory that match the pattern of user_id
Matching(files, user_id) == {n \in DOMAIN files : GlobMatches(user_id, n)}

\* sorted is in the order of the sort and d came after its entries in the
\* list: d goes behind every entry that does not come after it
InsertByUpdated(sorted, d, descending) ==
    LET ahead == Cardinality({i \in 1..Len(sorted) :
                                 IF descending THEN sorted[i].updated_at >= d.updated_at
                                 ELSE sorted[i].updated_at <= d.updated_at})
    IN  SubSeq(sorted, 1, ahead) \o <<d>> \o SubSeq(sorted, ahead + 1, Len(sorted))

\* A listing that sorts without reverse=True
RECURSIVE SortByUpdatedAsc(_)
SortByUpdatedAsc(conversations) ==
    IF conversations = <<>> THEN <<>>
    ELSE InsertByUpdated(SortByUpdatedAsc(SubSeq(conversations, 1, Len(conversations) - 1)),
                         conversations[Len(conversations)], FALSE)

\* conversations.sort(key=updated_at, reverse=True): a stable descending
\* sort, dicts of equal updated_at stay in the order of the list
RECURSIVE SortByUpdatedDesc(_)
SortByUpdatedDesc(conversations) ==
    IF conversations = <<>> THEN <<>>
    ELSE InsertByUpdated(SortByUpdatedDesc(SubSeq(conversations, 1, Len(conversations) - 1)),
                         conversations[Len(conversations)], TRUE)

\* The dicts of the files read, sorted; any failing read makes the whole
\* call return []
ListingOf(reads, ioerror) ==
    IF reads # <<>> /\ (ioerror \/ \E i \in 1..Len(reads) : IsNone(reads[i]))
    THEN [value |-> <<>>, failed |-> TRUE]
    ELSE [value |-> SortByUpdatedDesc([i \in 1..Len(reads) |-> Get(reads[i])]),
          failed |-> FALSE]

\* The files of the names, read one after the other
ReadAll(files, names) ==
    [i \in 1..Len(names) |-> ReadConversationFile(files[names[i]], FALSE)]

\* get_user_conversations; order is the order in which the directory yields
\* its files
get_user_conversations(files, user_id, faults, order) ==
    IF InvalidPattern(user_id) THEN [value |-> <<>>, failed |-> TRUE]
    ELSE ListingOf(ReadAll(files, SelectSeq(order, LAMBDA n : n \in Matching(files, user_id))),
                   "list" \in faults)

----------------------------------------------------------------------------
(* ConversationStorage: job embeddings *)

\* The document save_job_embedding builds (conversation_storage.py:170-175);
\* complete is FALSE for a file whose write was cut short
EmbeddingFile(job_id, embedding, text, created_at, complete) ==
    [job_id |-> job_id, embedding |-> embedding, text |-> text,
     created_at |-> created_at, complete |-> complete]

\* save_job_embedding: open fails (file untouched) or a write fails (file
\* truncated), and the exception is re-raised
save_job_embedding(files, job_id, embedding, text, now, openFails, writeFails) ==
    IF openFails THEN [files |-> files, raised |-> TRUE]
    ELSE IF writeFails
    THEN [files |-> WriteFile(files, job_id,
                      EmbeddingFile(job_id, embedding, text, now, FALSE)),
          raised |-> TRUE]
    ELSE [files |-> WriteFile(files, job_id,
                      EmbeddingFile(job_id, embedding, text, now, TRUE)),
          raised |-> FALSE]

\* get_all_job_embeddings: glob("job_*.json") and json.load of each file; any
\* exception makes the call return [] (conversation_storage.py:228-230)
\* order is the order in which the directory yields its files
get_all_job_embeddings(files, ioerror, order) ==
    IF DOMAIN files # {} /\ (ioerror \/ \E j \in DOMAIN files : ~files[j].complete)
    THEN [value |-> <<>>, failed |-> TRUE]
    ELSE [value |-> LET found == SelectSeq(order, LAMBDA j : j \in DOMAIN files)
                    IN  [i \in 1..Len(found) |-> files[found[i]]],
          failed |-> FALSE]

----------------------------------------------------------------------------
(* OpenAIService *)

\* A wrapper that answers with an empty reply when the provider call raises
generate_chat_response_blank(conversation_history, reply, fails) ==
    IF fails THEN Some("") ELSE Some(reply)

\* A wrapper that answers with a canned text when the provider call raises
generate_chat_response_fallback(conversation_history, reply, fails) ==
    IF fails THEN Some("sorry") ELSE Some(reply)

\* generate_chat_response: the reply, or None when the provider call raises
\* (the exception is re-raised, openai_service.py:207-209)
generate_chat_response(conversation_history, reply, fails) ==
    IF fails THEN None ELSE Some(reply)

\* JSON values of a preference object: null, a list of strings, a string,
\* a number or a boolean; items holds the strings (the digits of a number)
Null == [kind |-> "null", items |-> <<>>]
ListOf(items) == [kind |-> "list", items |-> items]
Str(text) == [kind |-> "str", items |-> <<text>>]
Num(digits) == [kind |-> "num", items |-> <<digits>>]
Bool(word) == [kind |-> "bool", items |-> <<word>>]

NumTokens == {"0", "3"}
BoolTokens == {"true", "false"}

\* The content of the extraction completion, as JSON tokens: one token per
\* brace, bracket, key and scalar
ExtractionContent(kind) ==
    IF kind = "object"
    THEN <<"{", "job_categories", "[", "engineer", "]", "}">>
    ELSE IF kind = "truncated"
    THEN <<"{", "job_categories", "[", "engineer", "]">>
    ELSE IF kind = "conflict"
    THEN <<"{", "job_categories", "[", "engineer", "sales", "]",
           "excluded_job_categories", "[", "sales", "]", "}">>
    ELSE IF kind = "excluding"
    THEN <<"{", "job_categories", "[", "engineer", "]", "location", "[", "tokyo", "]",
           "excluded_job_categories", "[", "sales", "]", "}">>
    ELSE IF kind = "nulls"
    THEN <<"{", "job_categories", "null", "excluded_job_categories", "null", "}">>
    ELSE IF kind = "avoid_all"
    THEN <<"{", "excluded_job_categories", "[", "engineer", "sales", "]", "}">>
    ELSE IF kind = "mistyped"
    THEN <<"{", "job_categories", "3", "}">>
    ELSE <<"sorry">>

\* The scalar a token stands for
JsonScalar(tok) ==
    IF tok = "null" THEN Null
    ELSE IF tok \in NumTokens THEN Num(tok)
    ELSE IF tok \in BoolTokens THEN Bool(tok)
    ELSE Str(tok)

\* The position of the first "]" of toks at or after i, 0 when there is none
RECURSIVE ClosingBracket(_, _)
ClosingBracket(toks, i) ==
    IF i > Len(toks) THEN 0
    ELSE IF toks[i] = "]" THEN i
    ELSE ClosingBracket(toks, i + 1)

\* A member in front of the members parsed behind it
ConsPair(pair, rest) == IF IsNone(rest) THEN None ELSE Some(<<pair>> \o Get(rest))

\* The members of an object: key, value, key, value, ...; None for a text
\* that is no sequence of complete members
RECURSIVE JsonParsePairs(_)
RECURSIVE ListMember(_, _)
\* A member whose value is the list closed at position close
ListMember(toks, close) ==
    IF close = 0 THEN None
    ELSE ConsPair([key |-> toks[1], value |-> ListOf(SubSeq(toks, 3, close - 1))],
                  JsonParsePairs(SubSeq(toks, close + 1, Len(toks))))

JsonParsePairs(toks) ==
    IF toks = <<>> THEN Some(<<>>)
    ELSE IF Len(toks) < 2 \/ toks[1] \in {"{", "}", "[", "]"} THEN None
    ELSE IF toks[2] = "[" THEN ListMember(toks, ClosingBracket(toks, 3))
    ELSE IF toks[2] \in {"{", "}", "]"} THEN None
    ELSE ConsPair([key |-> toks[1], value |-> JsonScalar(toks[2])],
                  JsonParsePairs(SubSeq(toks, 3, Len(toks))))

\* The dict of a member list: a key that occurs twice keeps its last value
DictOf(pairs) ==
    [k \in {pairs[i].key : i \in 1..Len(pairs)} |->
        pairs[CHOOSE i \in 1..Len(pairs) :
                 /\ pairs[i].key = k
                 /\ \A j \in 1..Len(pairs) : pairs[j].key = k => j <= i].value]

\* The dict of the members, None when they did not parse
DictOrNone(body) == IF IsNone(body) THEN None ELSE Some(DictOf(Get(body)))

\* A best-effort parser that also accepts an object cut before its brace
JsonLoadsPartial(content) ==
    DictOrNone(IF Len(content) < 1 \/ content[1] # "{" THEN None
               ELSE IF content[Len(content)] = "}"
               THEN JsonParsePairs(SubSeq(content, 2, Len(content) - 1))
               ELSE JsonParsePairs(SubSeq(content, 2, Len(content))))

\* json.loads(content) of an object: the dict, None for a JSONDecodeError;
\* nothing of a malformed text is kept
JsonLoads(content) ==
    DictOrNone(IF Len(content) < 2 \/ content[1] # "{" \/ content[Len(content)] # "}"
               THEN None
               ELSE JsonParsePairs(SubSeq(content, 2, Len(content) - 1)))

\* An extractor that sends only the last exchange of the history
ExtractionMessagesRecent(conversation_history) ==
    <<Message("system", "system_prompt")>>
    \o SubSeq(conversation_history, Len(conversation_history) - 1,
              Len(conversation_history))
    \o <<Message("user", "closing_instruction")>>

\* openai_service.py:131-135: the messages of the completion call
ExtractionMessages(conversation_history) ==
    <<Message("system", "system_prompt")>>
    \o conversation_history
    \o <<Message("user", "closing_instruction")>>

\* extract_job_preferences: one completion over the system prompt, the whole
\* conversation_history and the closing instruction, then json.loads.
\* value is None when the call or the parse raised.
extract_job_preferences(conversation_history, kind, fails) ==
    IF fails THEN None ELSE JsonLoads(ExtractionContent(kind))

\* preferences.get(key): the value under the key, or None
PrefGet(preferences, key) ==
    IF key \in DOMAIN preferences THEN Some(preferences[key]) ELSE None

\* bool(value) of Python: None, [], "", 0 and False are false
Truthy(value) ==
    CASE value.kind = "null" -> FALSE
      [] value.kind = "list" -> value.items # <<>>
      [] value.kind = "str" -> value.items[1] # ""
      [] value.kind = "num" -> value.items[1] # "0"
      [] OTHER -> value.items[1] = "true"

\* "if preferences.get(key):"
Has(preferences, key) ==
    key \in DOMAIN preferences /\ Truthy(preferences[key])

\* ', '.join(items): the items with a separator between neighbours
RECURSIVE Join(_)
Join(items) ==
    IF Len(items) <= 1 THEN items
    ELSE <<Head(items), ",">> \o Join(Tail(items))

\* The characters of a word of the vocabulary; any other word is one
\* character
Spell(word) ==
    CASE word = "engineer" -> <<"e", "n", "g", "i", "n", "e", "e", "r">>
      [] word = "sales" -> <<"s", "a", "l", "e", "s">>
      [] word = "Sales" -> <<"S", "a", "l", "e", "s">>
      [] word = "startup" -> <<"s", "t", "a", "r", "t", "u", "p">>
      [] word = "agency" -> <<"a", "g", "e", "n", "c", "y">>
      [] word = "tokyo" -> <<"t", "o", "k", "y", "o">>
      [] word = "Tokyo" -> <<"T", "o", "k", "y", "o">>
      [] word = "osaka" -> <<"o", "s", "a", "k", "a">>
      [] word = "contract" -> <<"c", "o", "n", "t", "r", "a", "c", "t">>
      [] word = "full_time" -> <<"f", "u", "l", "l", "_", "t", "i", "m", "e">>
      [] word = "" -> <<>>
      [] OTHER -> <<word>>

\* A token of a JSON list that is no string
NonString(tok) == tok \in NumTokens \cup BoolTokens \cup {"null"}

\* ', '.join(preferences[key]) on a value that is true: join iterates a list
\* of strings, or the characters of a string; on a number, a boolean or a
\* list that holds one it raises TypeError (None)
JoinOf(value) ==
    IF value.kind = "list"
    THEN IF \E i \in 1..Len(value.items) : NonString(value.items[i])
         THEN None ELSE Some(Join(value.items))
    ELSE IF value.kind = "str" THEN Some(Join(Spell(value.items[1])))
    ELSE None

\* f"label: {joined}", one token per label and item; None when join raised
Labelled(label, joined) ==
    IF IsNone(joined) THEN None ELSE Some(<<label>> \o Get(joined))

\* f"label: {', '.join(preferences[key])}" under "if preferences.get(key):",
\* Some(<<>>) for a facet that is not set, None when join raises
ListPart(label, preferences, key) ==
    IF Has(preferences, key) THEN Labelled(label, JoinOf(preferences[key]))
    ELSE Some(<<>>)

\* ', '.join(preferences[key]) on its own: the part appended a second time
\* "to add weight" (openai_service.py:230, 236, 242)
BarePart(preferences, key) ==
    IF Has(preferences, key) THEN JoinOf(preferences[key]) ELSE Some(<<>>)

\* repr of the items of a list, with separators
RECURSIVE ReprItems(_)
ReprItems(items) ==
    IF items = <<>> THEN <<>>
    ELSE (IF Head(items) = "null" THEN <<"None">>
          ELSE IF Head(items) = "true" THEN <<"True">>
          ELSE IF Head(items) = "false" THEN <<"False">>
          ELSE IF Head(items) \in NumTokens THEN <<Head(items)>>
          ELSE <<"'", Head(items), "'">>)
         \o (IF Len(items) > 1 THEN <<",">> ELSE <<>>)
         \o ReprItems(Tail(items))

\* f"{value}": str(value) of Python
Formatted(value) ==
    CASE value.kind = "null" -> <<"None">>
      [] value.kind = "list" -> <<"[">> \o ReprItems(value.items) \o <<"]">>
      [] value.kind = "bool" -> IF value.items[1] = "true" THEN <<"True">> ELSE <<"False">>
      [] OTHER -> value.items

\* f"label: {preferences[key]}"
ScalarPart(label, preferences, key) ==
    IF Has(preferences, key) THEN <<label>> \o Formatted(preferences[key]) ELSE <<>>

\* f"{preferences[key]}年の経験"
YearsPart(preferences, key) ==
    IF Has(preferences, key) THEN Formatted(preferences[key]) \o <<"years">> ELSE <<>>

\* A builder that keeps the empty text
OrFallbackEmpty(query_parts) == query_parts

\* openai_service.py:275-276: "求人検索" when there is no part
OrFallback(query_parts) == IF query_parts = <<>> THEN <<"fallback">> ELSE query_parts

\* query_parts.append(text): one fragment, none for a facet that is not set
Fragments(text) == IF text = <<>> THEN <<>> ELSE <<text>>

\* The fragments of the parts, one after the other
RECURSIVE Collect(_)
Collect(parts) ==
    IF parts = <<>> THEN <<>>
    ELSE Fragments(Get(Head(parts))) \o Collect(Tail(parts))

\* query_parts after the appends, None when building a part raised
PartsOrRaise(parts) ==
    IF \E i \in 1..Len(parts) : IsNone(parts[i]) THEN None ELSE Some(Collect(parts))

\* " ".join(query_parts): the tokens of the fragments one after the other
RECURSIVE JoinParts(_)
JoinParts(query_parts) ==
    IF query_parts = <<>> THEN <<>>
    ELSE Head(query_parts) \o JoinParts(Tail(query_parts))

\* A builder that also names what the user wants to avoid
QueryTextWithExclusions(preferences) ==
    LET query_parts ==
            PartsOrRaise(<<ListPart("job:", preferences, "job_categories"),
                           ListPart("avoid:", preferences, "excluded_job_categories"),
                           ListPart("avoid:", preferences, "excluded_skills"),
                           ListPart("avoid:", preferences, "excluded_industries"),
                           ListPart("avoid:", preferences, "excluded_company_types")>>)
    IN  IF IsNone(query_parts) THEN None ELSE Some(JoinParts(Get(query_parts)))

\* A builder that appends every facet once
QueryPartsUndoubled(preferences) ==
    PartsOrRaise(<<ListPart("job:", preferences, "job_categories"),
                   ListPart("tech:", preferences, "tech_stack"),
                   ListPart("skill:", preferences, "skills"),
                   ListPart("industry:", preferences, "industry"),
                   Some(ScalarPart("goal:", preferences, "career_goals")),
                   ListPart("style:", preferences, "work_style_preferences"),
                   ListPart("location:", preferences, "location"),
                   Some(ScalarPart("size:", preferences, "company_size")),
                   Some(YearsPart(preferences, "experience_years"))>>)

\* query_parts (openai_service.py:223-267): the fragments in source order,
\* None when a join raised
QueryParts(preferences) ==
    PartsOrRaise(<<ListPart("job:", preferences, "job_categories"),
                   BarePart(preferences, "job_categories"),
                   ListPart("tech:", preferences, "tech_stack"),
                   BarePart(preferences, "tech_stack"),
                   ListPart("skill:", preferences, "skills"),
                   BarePart(preferences, "skills"),
                   ListPart("industry:", preferences, "industry"),
                   Some(ScalarPart("goal:", preferences, "career_goals")),
                   ListPart("style:", preferences, "work_style_preferences"),
                   ListPart("location:", preferences, "location"),
                   Some(ScalarPart("size:", preferences, "company_size")),
                   Some(YearsPart(preferences, "experience_years"))>>)

\* openai_service.py:273-276: " ".join(query_parts), or the fallback text
\* when there is no part; None when building the parts raised
JoinedText(query_parts) ==
    IF IsNone(query_parts) THEN None ELSE Some(OrFallback(JoinParts(Get(query_parts))))

\* The text create_search_query_embedding builds (openai_service.py:223-276)
QueryText(preferences) == JoinedText(QueryParts(preferences))

\* create_embedding: the provider's vector for a text; the provider need not
\* return the same floats on every call, seed stands for what varies
\* (openai_service.py:41-43) an empty or blank text gets the zero vector and
\* the provider is not called, so this call cannot fail
create_embedding(text, seed, fails) ==
    IF text = <<>> \/ \A i \in 1..Len(text) : text[i] \in {"", " "}
    THEN Some([seed |-> "zero", text |-> text])
    ELSE IF fails THEN None
    ELSE Some([seed |-> seed, text |-> text])

\* openai_service.py:278-280: create_embedding on the text that was built
EmbedText(query_text, seed, fails) ==
    IF IsNone(query_text) THEN None ELSE create_embedding(Get(query_text), seed, fails)

\* create_search_query_embedding: the vector of the query text; None when
\* building the text or the provider call raised (the exception is logged
\* and re-raised, openai_service.py:282-284)
create_search_query_embedding(preferences, seed, fails) ==
    EmbedText(QueryText(preferences), seed, fails)

----------------------------------------------------------------------------
(* conversation.py: catalog, embedding warm-up, search *)

\* A catalog item (a dict of data/jobs.json): the attributes the ranking
\* reads; "" and <<>> stand for an attribute the item does not state
Job(id, category) ==
    [id |-> id, category |-> category, skills |-> <<>>, industry |-> "",
     company_type |-> "", location |-> "", employment_type |-> "",
     remote |-> FALSE, salary_min |-> 0, salary_max |-> 0, posted_at |-> 0]

\* _load_job_data: data.get("jobs", []), or [] when the file is missing or
\* unreadable (conversation.py:322-332)
load_job_data(jobs, fails) == IF fails THEN <<>> ELSE jobs

\* VectorSearchService.create_job_embedding_text(job)
create_job_embedding_text(job) == <<job.id, job.category>>

EmbedFault(i) == IF i = 1 THEN "embed1" ELSE IF i = 2 THEN "embed2" ELSE "embed_none"
EmbOpenFault(i) == IF i = 1 THEN "emb_open1" ELSE IF i = 2 THEN "emb_open2" ELSE "emb_open_none"
EmbWriteFault(i) == IF i = 1 THEN "emb_write1" ELSE IF i = 2 THEN "emb_write2" ELSE "emb_write_none"

\* The for loop of _initialize_job_embeddings from job i on: text, embedding,
\* save, for each job in order; the first exception leaves the loop and is
\* swallowed by the except of conversation.py:313-314.
\* embedCalls: jobs whose embedding the provider was asked for;
\* embedded: jobs whose embedding the provider returned;
\* writes: jobs whose file was opened for writing; failed: storage calls that raised
RECURSIVE InitLoop(_, _, _, _, _, _, _)
InitLoop(files, job_data_list, i, now, seed, faults, log) ==
    IF i > Len(job_data_list) THEN [files |-> files, log |-> log]
    ELSE LET job == job_data_list[i]
             text == create_job_embedding_text(job)
             embedding == create_embedding(text, seed, EmbedFault(i) \in faults)
             log1 == [log EXCEPT !.embedCalls = Append(@, job.id)]
         IN  IF IsNone(embedding) THEN [files |-> files, log |-> log1]
             ELSE LET saved == save_job_embedding(files, job.id, Get(embedding), text, now,
                                                  EmbOpenFault(i) \in faults,
                                                  EmbWriteFault(i) \in faults)
                      log2 == [log1 EXCEPT
                                 !.embedded = Append(@, job.id),
                                 !.writes = IF EmbOpenFault(i) \in faults THEN @
                                            ELSE Append(@, job.id),
                                 !.failed = IF saved.raised THEN @ \cup {"cache_write"} ELSE @]
                  IN  IF saved.raised THEN [files |-> saved.files, log |-> log2]
                      ELSE InitLoop(saved.files, job_data_list, i + 1, now, seed, faults, log2)

EmptySearchLog == [embedCalls |-> <<>>, embedded |-> <<>>, writes |-> <<>>, failed |-> {}]

\* _initialize_job_embeddings
initialize_job_embeddings(files, jobs, now, seed, faults) ==
    InitLoop(files, load_job_data(jobs, "jobs1" \in faults), 1, now, seed, faults,
             EmptySearchLog)

\* A vector turned by a quarter under seed "s2"
Turned(v, seed) == IF seed = "s2" THEN <<-v[2], v[1]>> ELSE v

\* The floats of an embedding.  The provider's vectors are modelled in the
\* plane, on the axes: the text decides the axis and the direction, the seed
\* turns the vector by a quarter
VectorOf(embedding) ==
    Turned(IF embedding.seed = "zero" \/ embedding.text = <<>> THEN <<0, 0>>
           ELSE IF "engineer" \in Range(embedding.text) THEN <<1, 0>>
           ELSE IF "sales" \in Range(embedding.text) THEN <<-1, 0>>
           ELSE <<0, 2>>,
           embedding.seed)

Abs(n) == IF n < 0 THEN -n ELSE n
Dot(a, b) == a[1] * b[1] + a[2] * b[2]
\* The length of a vector on an axis
Norm(a) == Abs(a[1]) + Abs(a[2])

\* 100 times the cosine similarity; 0 when one of the vectors is the zero
\* vector, so that the base score is the constant 50
Cos100(a, b) ==
    IF Norm(a) = 0 \/ Norm(b) = 0 THEN 0
    ELSE (100 * Dot(a, b)) \div (Norm(a) * Norm(b))

\* score = (cos + 1) * 50
BaseScore(cos100) == (cos100 + 100) \div 2

\* Lower case of a term, and the terms a text contains as substrings, over
\* the vocabulary of the model
Lower(t) ==
    CASE t = "Sales" -> "sales"
      [] t = "Tokyo" -> "tokyo"
      [] OTHER -> t

Substrings(t) ==
    CASE t = "sales manager" -> {"sales manager", "sales", "manager"}
      [] t = "" -> {}
      [] OTHER -> {t}

\* Case-insensitive substring match of a profile term in an item attribute
TermMatches(term, attr) == Lower(term) \in Substrings(Lower(attr))

\* The terms a profile lists under a facet
Terms(preferences, key) ==
    IF key \in DOMAIN preferences /\ preferences[key].kind = "list"
    THEN Range(preferences[key].items) ELSE {}

\* A ranker without the exclusion filter
ExcludedByNone(preferences, job) == FALSE

\* A ranker that matches only the excluded job categories
ExcludedByCategoryOnly(preferences, job) ==
    \E t \in Terms(preferences, "excluded_job_categories") : TermMatches(t, job.category)

\* Step 3: an exclusion facet term matches the item's category, skills,
\* industry or company type
ExcludedBy(preferences, job) ==
    \/ \E t \in Terms(preferences, "excluded_job_categories") : TermMatches(t, job.category)
    \/ \E t \in Terms(preferences, "excluded_skills") :
          \E k \in Range(job.skills) : TermMatches(t, k)
    \/ \E t \in Terms(preferences, "excluded_industries") : TermMatches(t, job.industry)
    \/ \E t \in Terms(preferences, "excluded_company_types") :
          TermMatches(t, job.company_type)

\* Step 4: the increments of the inclusion boosts
LocationBoost == 10
EmploymentBoost == 5
RemoteBoost == 5
SalaryBoost == 5

NumOf(value) == IF value.items[1] = "3" THEN 3 ELSE 0

\* The salary range of the profile overlaps the salary range of the item;
\* a bound the profile does not state is open
SalaryOverlaps(preferences, job) ==
    LET lo == IF Has(preferences, "salary_min") THEN NumOf(preferences["salary_min"]) ELSE 0
        hasHi == Has(preferences, "salary_max")
        hi == IF hasHi THEN NumOf(preferences["salary_max"]) ELSE 0
    IN  /\ Has(preferences, "salary_min") \/ hasHi
        /\ job.salary_max >= lo
        /\ hasHi => job.salary_min <= hi

Boost(preferences, job) ==
    (IF \E t \in Terms(preferences, "location") : TermMatches(t, job.location)
     THEN LocationBoost ELSE 0)
    + (IF \E t \in Terms(preferences, "employment_types") :
             TermMatches(t, job.employment_type)
       THEN EmploymentBoost ELSE 0)
    + (IF Has(preferences, "remote_work") /\ job.remote THEN RemoteBoost ELSE 0)
    + (IF SalaryOverlaps(preferences, job) THEN SalaryBoost ELSE 0)

\* A ranker that leaves the sum of base score and boosts as it is
ClampNone(score) == score

\* Step 5: clamp to [0, 100]
Clamp(score) == IF score < 0 THEN 0 ELSE IF score > 100 THEN 100 ELSE score

\* The order of the item identifiers
IdRank(id) ==
    CASE id = "j1" -> 1
      [] id = "j2" -> 2
      [] id = "j3" -> 3
      [] OTHER -> 4

\* A ranker that orders by score alone
PrecedesByScore(a, b) == a.score >= b.score

\* Step 6: a comes before b: higher score, then more recent posting, then
\* smaller identifier
Precedes(a, b) ==
    \/ a.score > b.score
    \/ /\ a.score = b.score
       /\ \/ a.posted_at > b.posted_at
          \/ a.posted_at = b.posted_at /\ IdRank(a.job_id) <= IdRank(b.job_id)

\* x put into a sorted list, behind the entries that come before it
RECURSIVE InsertSorted(_, _)
InsertSorted(x, sorted) ==
    IF sorted = <<>> THEN <<x>>
    ELSE IF Precedes(Head(sorted), x) THEN <<Head(sorted)>> \o InsertSorted(x, Tail(sorted))
    ELSE <<x>> \o sorted

RECURSIVE SortScored(_)
SortScored(scored) ==
    IF scored = <<>> THEN <<>>
    ELSE InsertSorted(Head(scored), SortScored(Tail(scored)))

\* The first record of the cache for an item, None when there is none
EmbeddingOf(job_embeddings, job_id) ==
    IF \E i \in 1..Len(job_embeddings) : job_embeddings[i].job_id = job_id
    THEN Some(job_embeddings[CHOOSE i \in 1..Len(job_embeddings) :
                                /\ job_embeddings[i].job_id = job_id
                                /\ \A k \in 1..(i - 1) : job_embeddings[k].job_id # job_id])
    ELSE None

\* Steps 2, 4 and 5 for one item
ScoreOf(query_vector, rec, job, preferences) ==
    [job_id |-> job.id,
     score |-> Clamp(BaseScore(Cos100(query_vector, VectorOf(rec.embedding)))
                     + Boost(preferences, job)),
     posted_at |-> job.posted_at]

\* Steps 1 to 5: the scored items, in catalog order: every job of
\* job_data_list that has an embedding record and is not excluded
RECURSIVE ScoreJobs(_, _, _, _)
ScoreJobs(query_vector, job_embeddings, job_data_list, preferences) ==
    IF job_data_list = <<>> THEN <<>>
    ELSE (IF IsNone(EmbeddingOf(job_embeddings, Head(job_data_list).id))
             \/ ExcludedBy(preferences, Head(job_data_list))
          THEN <<>>
          ELSE <<ScoreOf(query_vector,
                         Get(EmbeddingOf(job_embeddings, Head(job_data_list).id)),
                         Head(job_data_list), preferences)>>)
         \o ScoreJobs(query_vector, job_embeddings, Tail(job_data_list), preferences)

\* Step 6: the first top_k entries
Truncate(ranked, top_k) ==
    SubSeq(ranked, 1, IF Len(ranked) < top_k THEN Len(ranked) ELSE top_k)

\* VectorSearchService.weighted_search: None when it raises
weighted_search(query_embedding, job_embeddings, job_data_list, preferences, top_k, fails) ==
    IF fails THEN None
    ELSE Some(Truncate(SortScored(ScoreJobs(VectorOf(query_embedding), job_embeddings,
                                            job_data_list, preferences)),
                       top_k))

\* conversation.py:275-287: the result of the ranker, [] when it raised
SearchResult(init, first, second, results) ==
    [files |-> init.files,
     value |-> IF IsNone(results) THEN <<>> ELSE Get(results),
     caught |-> IsNone(results),
     log |-> [init.log EXCEPT
                !.failed = @ \cup (IF first.failed \/ second.failed
                                   THEN {"cache_read"} ELSE {})]]

\* conversation.py:271-283: the catalog and the call of the ranker
SearchRanked(jobs, preferences, faults, query_embedding, first, init, second) ==
    SearchResult(init, first, second,
                 weighted_search(Get(query_embedding), second.value,
                                 load_job_data(jobs, "jobs2" \in faults),
                                 preferences, TopK, "search" \in faults))

\* conversation.py:265-268: the second read of the cache, after a warm-up
SearchWarm(jobs, preferences, faults, order, query_embedding, first, init) ==
    SearchRanked(jobs, preferences, faults, query_embedding, first, init,
                 IF first.value = <<>>
                 THEN get_all_job_embeddings(init.files, "emb_read2" \in faults, order)
                 ELSE first)

\* conversation.py:260-267: after the query embedding and the first read of
\* the cache, the warm-up of an empty cache
SearchFrom(files, jobs, preferences, now, seed, faults, order, query_embedding, first) ==
    IF IsNone(query_embedding)
    THEN [files |-> files, value |-> <<>>, caught |-> TRUE, log |-> EmptySearchLog]
    ELSE SearchWarm(jobs, preferences, faults, order, query_embedding, first,
                    IF first.value = <<>>
                    THEN initialize_job_embeddings(files, jobs, now, seed, faults)
                    ELSE [files |-> files, log |-> EmptySearchLog])

\* _search_jobs_by_preferences: value is the returned list; every exception
\* ends in return [] (conversation.py:285-287), caught tells that one did
search_jobs_by_preferences(files, jobs, preferences, now, seed, faults, order) ==
    SearchFrom(files, jobs, preferences, now, seed, faults, order,
               create_search_query_embedding(preferences, seed, "qembed" \in faults),
               get_all_job_embeddings(files, "emb_read1" \in faults, order))

\* conversation.py:237-242: what the search found for the profile
SearchOutcome(preferences, found) ==
    [files |-> found.files, value |-> found.value, raised |-> FALSE,
     extracted |-> TRUE, searched |-> ~found.caught,
     preferences |-> preferences, log |-> found.log]

\* conversation.py:234-246: after the extraction
SearchExtracted(files, jobs, now, env, preferences) ==
    IF IsNone(preferences)
    THEN [files |-> files, value |-> <<>>, raised |-> FALSE,
          extracted |-> FALSE, searched |-> FALSE,
          preferences |-> None, log |-> EmptySearchLog]
    ELSE SearchOutcome(preferences,
                       search_jobs_by_preferences(files, jobs, Get(preferences), now,
                                                  env.seed, env.faults, env.order))

\* A helper that lets the exceptions of extraction and search through
extract_and_search_jobs_raising(files, jobs, messages, now, env) ==
    LET tail == SearchExtracted(files, jobs, now, env,
                                extract_job_preferences(messages, ContentKind(env.faults),
                                                        "extract" \in env.faults))
    IN  [tail EXCEPT !.raised = ~tail.extracted \/ ~tail.searched]

\* _extract_and_search_jobs: extraction, then search; every exception ends in
\* return [] (conversation.py:244-246), so the call itself never raises
extract_and_search_jobs(files, jobs, messages, now, env) ==
    SearchExtracted(files, jobs, now, env,
                    extract_job_preferences(messages, ContentKind(env.faults),
                                            "extract" \in env.faults))

----------------------------------------------------------------------------
(* conversation.py: the endpoints *)

\* What a request did and answered.  status 200 is the normal response, any
\* other status is the HTTPException raised to the caller.
\*  reply: what generate_chat_response returned (None: not called, or raised)
\*  resp_message, recommendations, preferences, listing: fields of the response
\*  saved: the messages handed to a save_conversation that returned normally
\*  extractInputs: the conversation_history of every extract_job_preferences call
\*  tail: how far extraction and search got ("none": not started)
\*  content: the text the provider answered the extraction call with
\*  profile: the preferences extract_job_preferences returned
\*  providerFailed: the provider calls of the request that raised
\*  embedded: jobs the provider returned an embedding for
\*  embedCalls, embWrites: jobs the warm-up asked an embedding for / wrote
\*  failed: the storage calls of the request that hit an exception
\*  loaded: what a direct load_conversation call returned
\*  queryText: the text create_search_query_embedding passed to create_embedding
\*  queryParts: the query_parts list create_search_query_embedding built
\*    (both None when building them raised)
\*  queryEmbedding: what create_search_query_embedding returned
\*  rankInput: the arguments of a direct weighted_search call
\*  extractPrompt: the messages of the extraction completion call
\*  twin: a second profile put to the same operation, with its result
\*  prevSaved: for a load that directly follows a successful save of the
\*    same file, the messages that save was given
\*  before, cacheBefore: the two directories as the request found them
NoOutcome ==
    [op |-> "none", user_id |-> <<>>, conversation_id_in |-> None, message |-> "",
     status |-> 0, conversation_id |-> None, reply |-> None, resp_message |-> None,
     recommendations |-> None, preferences |-> None, listing |-> None,
     saved |-> None, extractInputs |-> <<>>, tail |-> "none",
     content |-> None, profile |-> None, providerFailed |-> {},
     embedCalls |-> <<>>, embedded |-> <<>>, embWrites |-> <<>>, failed |-> {},
     loaded |-> None, prevSaved |-> None,
     queryText |-> None, twin |-> None, rankInput |-> None, extractPrompt |-> None,
     queryParts |-> None, queryEmbedding |-> None,
     before |-> <<>>, cacheBefore |-> <<>>]

Request(op, user_id, conversation_id_in, message, files, cache) ==
    [NoOutcome EXCEPT !.op = op, !.user_id = user_id,
                      !.conversation_id_in = conversation_id_in,
                      !.message = message, !.before = files, !.cacheBefore = cache]

\* The provider calls that raise in a request that reaches them: on the way
\* to the response (head) and in extraction and search (tail); the provider
\* is asked for the query vector only when the query text was built
HeadProviderFailed(faults) == faults \cap {"reply"}
TailProviderFailed(faults, preferences, log) ==
    (faults \cap {"extract"})
    \cup (IF ~IsNone(preferences) /\ ~IsNone(QueryText(Get(preferences)))
          THEN faults \cap {"qembed"} ELSE {})
    \cup (IF Len(log.embedCalls) > Len(log.embedded) THEN {"embed"} ELSE {})

\* The content of the extraction completion, None when the call raised
ContentOf(faults) ==
    IF "extract" \in faults THEN None ELSE Some(ExtractionContent(ContentKind(faults)))

\* How far _extract_and_search_jobs got
TailOf(tail) == IF ~tail.extracted THEN "extract_failed"
                ELSE IF ~tail.searched THEN "search_failed" ELSE "ok"

\* An id resolution that ignores the id of the request
ConversationIdOfAlwaysFresh(conversation_id_in, fresh) == fresh

\* conversation.py:60  request.conversation_id or str(uuid.uuid4())
ConversationIdOf(conversation_id_in, fresh) ==
    IF IsNone(conversation_id_in) \/ Get(conversation_id_in) = <<>>
    THEN fresh ELSE Get(conversation_id_in)

\* conversation.py:60-68: the id and the loaded history
ChatLoad(files, user_id, conversation_id_in, fresh, faults) ==
    LET conversation_id == ConversationIdOf(conversation_id_in, fresh)
        loaded == load_conversation(files, user_id, conversation_id, faults)
    IN  [conversation_id |-> conversation_id,
         conversation_data |-> loaded.value,
         messages |-> IF IsNone(loaded.value) THEN <<>> ELSE Get(loaded.value).messages,
         loadFailed |-> loaded.failed]

\* A trigger that fires one exchange late
ShouldExtractLate(messages) == Len(messages) > ExtractionThreshold

\* conversation.py:97  the trigger of the extraction
ShouldExtract(messages) == Len(messages) >= ExtractionThreshold

\* A handler that stores the history before the reply is appended
WithReplyDropped(messages, ai_response) == messages

\* conversation.py:81-84  messages.append of the assistant turn
WithReply(messages, ai_response) == Append(messages, Message("assistant", ai_response))

\* conversation.py:70-116 on the loaded history: the directories afterwards
\* and the outcome of the request.  req is the Request the handler was
\* called with.
ChatRest(files, cache, jobs, now, req, loaded, env) ==
    LET conversation_id == loaded.conversation_id
        withUser == Append(loaded.messages, Message("user", req.message))
        ai_response == generate_chat_response(withUser, env.reply, "reply" \in env.faults)
        messages == WithReply(withUser, Get(ai_response))
        metadata == Some([created_at |->
                            IF IsNone(loaded.conversation_data) THEN Some(now)
                            ELSE Get(loaded.conversation_data).created_at])
        saved == save_conversation(files, req.user_id, conversation_id, messages,
                                   metadata, now, env.faults)
        tail == extract_and_search_jobs(cache, jobs, messages, now, env)
        \* conversation.py:96-106: an exception of the call leaves None
        recommendations == IF tail.raised THEN None ELSE Some(tail.value)
        base == [req EXCEPT !.conversation_id = Some(conversation_id),
                            !.providerFailed = HeadProviderFailed(env.faults),
                            !.failed = IF loaded.loadFailed THEN {"load"} ELSE {}]
    IN  IF IsNone(ai_response)
        THEN \* generate_chat_response raised: except Exception -> 500
             [convFiles |-> files, embFiles |-> cache,
              out |-> [base EXCEPT !.status = 500]]
        ELSE IF saved.raised
        THEN \* save_conversation raised: except Exception -> 500
             [convFiles |-> saved.files, embFiles |-> cache,
              out |-> [base EXCEPT !.status = 500, !.reply = ai_response,
                                   !.failed = @ \cup {"save"}]]
        ELSE IF ShouldExtract(messages)
        THEN [convFiles |-> saved.files, embFiles |-> tail.files,
              out |-> [base EXCEPT !.status = 200, !.reply = ai_response,
                                   !.resp_message = ai_response,
                                   !.recommendations = recommendations,
                                   !.saved = Some(messages),
                                   !.extractInputs = <<messages>>,
                                   !.extractPrompt = Some(ExtractionMessages(messages)),
                                   !.tail = TailOf(tail),
                                   !.content = ContentOf(env.faults),
                                   !.profile = tail.preferences,
                                   !.providerFailed = @ \cup
                                       TailProviderFailed(env.faults, tail.preferences, tail.log),
                                   !.embedCalls = tail.log.embedCalls,
                                   !.embedded = tail.log.embedded,
                                   !.embWrites = tail.log.writes,
                                   !.failed = @ \cup tail.log.failed]]
        ELSE [convFiles |-> saved.files, embFiles |-> cache,
              out |-> [base EXCEPT !.status = 200, !.reply = ai_response,
                                   !.resp_message = ai_response,
                                   !.saved = Some(messages)]]

\* The chat handler from its first line to its response
ChatHandler(files, cache, jobs, now, fresh, user_id, conversation_id_in, message, env) ==
    ChatRest(files, cache, jobs, now,
             Request("chat", user_id, conversation_id_in, message, files, cache),
             ChatLoad(files, user_id, conversation_id_in, fresh, env.faults), env)

\* get_conversations (conversation.py:119-136)
GetConversationsHandler(files, cache, user_id, env, order) ==
    LET listed == get_user_conversations(files, user_id, env.faults, order)
        req == Request("list", user_id, None, "", files, cache)
    IN  [convFiles |-> files, embFiles |-> cache,
         out |-> [req EXCEPT !.status = 200, !.listing = Some(listed.value),
                             !.failed = IF listed.failed THEN {"list"} ELSE {}]]

\* delete_conversation endpoint (conversation.py:139-163)
DeleteConversationHandler(files, cache, user_id, conversation_id, env) ==
    LET deleted == delete_conversation(files, user_id, conversation_id, env.faults)
        req == Request("delete", user_id, Some(conversation_id), "", files, cache)
    IN  [convFiles |-> deleted.files, embFiles |-> cache,
         out |-> [req EXCEPT !.status = IF deleted.result THEN 200 ELSE 404,
                             !.conversation_id = Some(conversation_id),
                             !.failed = IF deleted.failed THEN {"delete"} ELSE {}]]

\* extract_preferences (conversation.py:176-222)
\* A handler that takes every load result for a conversation
ConversationFoundAlways(conversation_data) == TRUE

\* "if not conversation_data" (conversation.py:194) is not taken: a loaded
\* document is a dict with keys, None is what load_conversation returns for
\* a missing or unreadable file
ConversationFound(conversation_data) == ~IsNone(conversation_data)

ExtractPreferencesHandler(files, cache, jobs, now, user_id, conversation_id, env) ==
    LET loaded == load_conversation(files, user_id, conversation_id, env.faults)
        messages == Get(loaded.value).messages
        preferences == extract_job_preferences(messages, ContentKind(env.faults),
                                               "extract" \in env.faults)
        found == search_jobs_by_preferences(cache, jobs, Get(preferences), now,
                                            env.seed, env.faults, env.order)
        base == [Request("extract", user_id, Some(conversation_id), "", files, cache)
                   EXCEPT !.conversation_id = Some(conversation_id),
                          !.failed = IF loaded.failed THEN {"load"} ELSE {}]
    IN  IF ~ConversationFound(loaded.value)
        THEN \* raise NotFoundError -> HTTPException(404)
             [convFiles |-> files, embFiles |-> cache,
              out |-> [base EXCEPT !.status = 404]]
        ELSE IF IsNone(loaded.value)
        THEN \* None.get raises AttributeError -> except Exception -> 500
             [convFiles |-> files, embFiles |-> cache,
              out |-> [base EXCEPT !.status = 500]]
        ELSE IF IsNone(preferences)
        THEN [convFiles |-> files, embFiles |-> cache,
              out |-> [base EXCEPT !.status = 500, !.extractInputs = <<messages>>,
                                   !.extractPrompt = Some(ExtractionMessages(messages)),
                                   !.content = ContentOf(env.faults),
                                   !.providerFailed = env.faults \cap {"extract"},
                                   !.tail = "extract_failed"]]
        ELSE [convFiles |-> files, embFiles |-> found.files,
              out |-> [base EXCEPT !.status = 200, !.extractInputs = <<messages>>,
                                   !.extractPrompt = Some(ExtractionMessages(messages)),
                                   !.preferences = preferences,
                                   !.profile = preferences,
                                   !.content = ContentOf(env.faults),
                                   !.recommendations = Some(found.value),
                                   !.tail = IF found.caught THEN "search_failed" ELSE "ok",
                                   !.providerFailed =
                                       TailProviderFailed(env.faults, preferences, found.log),
                                   !.embedCalls = found.log.embedCalls,
                                   !.embedded = found.log.embedded,
                                   !.embWrites = found.log.writes,
                                   !.failed = @ \cup found.log.failed]]

----------------------------------------------------------------------------
(* The server handling one request after the other *)

Catalog == <<Job("j1", "engineer"), Job("j2", "sales")>>

\* A history of k exchanges stored under (user_id, conversation_id) by k
\* earlier chat turns, the first at time -k and the last at time -1
RECURSIVE SeedMessages(_)
SeedMessages(k) ==
    IF k = 0 THEN <<>>
    ELSE SeedMessages(k - 1) \o <<Message("user", "m1"), Message("assistant", "r1")>>

SeedStore(user_id, conversation_id, k) ==
    IF k = 0 THEN <<>>
    ELSE WriteFile(<<>>, FileName(user_id, conversation_id),
                   ConversationFile(user_id, conversation_id,
                                    JsonDump(SeedMessages(k)), Some(0 - k), 0 - 1))

Init ==
    /\ \E k \in 0..MaxSeed : convFiles = SeedStore(<<"a">>, <<"c">>, k)
    /\ embFiles = <<>>
    /\ catalog \in {<<>>, Catalog}
    /\ clock = 1
    /\ uuidsUsed = 0
    /\ reqs = <<>>
    /\ embedCount = [j \in {"j1", "j2"} |-> 0]
    /\ db = EmptyDb
    /\ last = NoOutcome

Budget == clock <= MaxOps

Answer(result) ==
    /\ convFiles' = result.convFiles
    /\ embFiles' = result.embFiles
    /\ last' = result.out
    /\ embedCount' = [j \in DOMAIN embedCount |->
                        embedCount[j] + Cardinality({i \in 1..Len(result.out.embedded) :
                                                       result.out.embedded[i] = j})]
    /\ clock' = clock + 1
    /\ UNCHANGED <<catalog, reqs, db>>

Chat ==
    /\ Budget
    /\ \E user_id \in Users, conversation_id_in \in ConvIdInputs, message \in Msgs,
          env \in MatchEnvsOf(ChatFaults, Seeds) :
          LET needsUuid == IsNone(conversation_id_in) \/ Get(conversation_id_in) = <<>>
          IN  /\ needsUuid => uuidsUsed < MaxUuids
              /\ uuidsUsed' = IF needsUuid THEN uuidsUsed + 1 ELSE uuidsUsed
              /\ Answer(ChatHandler(convFiles, embFiles, catalog, clock,
                                    Uuid(uuidsUsed + 1), user_id, conversation_id_in,
                                    message, env))

GetConversations ==
    /\ Budget
    /\ \E user_id \in Users, env \in EnvsOf(ListFaults, {"s1"}) :
          \E order \in DirOrders(Matching(convFiles, user_id)) :
             Answer(GetConversationsHandler(convFiles, embFiles, user_id, env, order))
    /\ UNCHANGED uuidsUsed

DeleteConversation ==
    /\ Budget
    /\ \E user_id \in Users, conversation_id \in ConvIds,
          env \in EnvsOf(DeleteFaults, {"s1"}) :
          Answer(DeleteConversationHandler(convFiles, embFiles, user_id,
                                           conversation_id, env))
    /\ UNCHANGED uuidsUsed

ExtractPreferences ==
    /\ Budget
    /\ \E user_id \in Users, conversation_id \in ConvIds,
          env \in MatchEnvsOf(ExtractFaults, Seeds) :
          Answer(ExtractPreferencesHandler(convFiles, embFiles, catalog, clock,
                                           user_id, conversation_id, env))
    /\ UNCHANGED uuidsUsed

Next == Chat \/ GetConversations \/ DeleteConversation \/ ExtractPreferences

Spec == Init /\ [][Next]_vars

----------------------------------------------------------------------------
(* The conversation store called directly *)

StoreUsers == {<<"a">>, <<"a", "_", "b">>}
StoreConvIds == {<<"c">>, <<"b", "_", "c">>}
Roles == {"user", "assistant"}

\* Every message list of at most MaxTurns turns
RECURSIVE Transcripts(_)
Transcripts(n) ==
    IF n = 0 THEN {<<>>}
    ELSE LET shorter == Transcripts(n - 1)
         IN shorter \cup {Append(t, Message(r, c)) :
                            t \in {x \in shorter : Len(x) = n - 1},
                            r \in Roles, c \in Msgs}

InitStore ==
    /\ convFiles = <<>>
    /\ embFiles = <<>>
    /\ catalog = Catalog
    /\ clock = 1
    /\ uuidsUsed = 0
    /\ reqs = <<>>
    /\ embedCount = [j \in {"j1", "j2"} |-> 0]
    /\ db = EmptyDb
    /\ last = NoOutcome

StoreStep(files, out) ==
    /\ convFiles' = files
    /\ last' = out
    /\ clock' = clock + 1
    /\ UNCHANGED <<embFiles, catalog, uuidsUsed, reqs, embedCount, db>>

StoreSave ==
    /\ Budget
    /\ \E user_id \in StoreUsers, conversation_id \in StoreConvIds,
          messages \in Transcripts(MaxTurns),
          metadata \in {None, Some([created_at |-> Some(0)])},
          env \in EnvsOf({"save_open", "save_write"}, {"s1"}) :
          LET saved == save_conversation(convFiles, user_id, conversation_id, messages,
                                         metadata, clock, env.faults)
              req == Request("save", user_id, Some(conversation_id), "", convFiles, embFiles)
          IN  StoreStep(saved.files,
                        [req EXCEPT !.conversation_id = Some(conversation_id),
                                    !.status = IF saved.raised THEN 500 ELSE 200,
                                    !.saved = IF saved.raised THEN None ELSE Some(messages),
                                    !.failed = IF saved.raised THEN {"save"} ELSE {}])

StoreLoad ==
    /\ Budget
    /\ \E user_id \in StoreUsers, conversation_id \in StoreConvIds,
          env \in EnvsOf({"load"}, {"s1"}) :
          LET loaded == load_conversation(convFiles, user_id, conversation_id, env.faults)
              req == Request("load", user_id, Some(conversation_id), "", convFiles, embFiles)
              follows == /\ last.op = "save" /\ last.status = 200
                         /\ FileName(last.user_id, Get(last.conversation_id))
                              = FileName(user_id, conversation_id)
          IN  StoreStep(convFiles,
                        [req EXCEPT !.conversation_id = Some(conversation_id),
                                    !.status = 200,
                                    !.loaded = loaded.value,
                                    !.prevSaved = IF follows THEN last.saved ELSE None,
                                    !.failed = IF loaded.failed THEN {"load"} ELSE {}])

NextStore == StoreSave \/ StoreLoad

SpecStore == InitStore /\ [][NextStore]_vars

----------------------------------------------------------------------------
(* Chat requests in flight at the same time.  The handlers are coroutines   *)
(* of one event loop: a handler that was started runs until it awaits       *)
(* something that suspends it, and only then can another handler run.       *)

\* A chat handler that awaits the provider between load and save
SuspendsAtReplyAwaited == TRUE

\* conversation.py:57-93: load_conversation, generate_chat_response and
\* save_conversation are plain blocking calls, the handler awaits nothing
\* between its first line and the save
SuspendsAtReply == FALSE

IdleRequest ==
    [pc |-> "idle", user_id |-> <<>>, conversation_id_in |-> None, message |-> "",
     env |-> [faults |-> {}, reply |-> "r1", seed |-> "s1", order |-> <<"j1", "j2">>],
     req |-> NoOutcome,
     loaded |-> [conversation_id |-> <<>>, conversation_data |-> None,
                 messages |-> <<>>, loadFailed |-> FALSE],
     overlapped |-> FALSE,
     order |-> 0,
     out |-> NoOutcome]

InitConc ==
    /\ \E k \in 0..MaxSeed : convFiles = SeedStore(<<"a">>, <<"c">>, k)
    /\ embFiles = <<>>
    /\ catalog = Catalog
    /\ clock = 1
    /\ uuidsUsed = 0
    /\ reqs = [r \in 1..MaxReqs |-> IdleRequest]
    /\ embedCount = [j \in {"j1", "j2"} |-> 0]
    /\ db = EmptyDb
    /\ last = NoOutcome

\* The server accepts a chat request whose calls can fail at the given
\* points; its handler has not started yet
SubmitWith(points) ==
    \E r \in 1..MaxReqs, user_id \in Users, conversation_id \in ConvIds,
       message \in Msgs, env \in MatchEnvsOf(points, {"s1"}) :
       /\ reqs[r].pc = "idle"
       /\ \A q \in 1..MaxReqs : q < r => reqs[q].pc # "idle"
       /\ reqs' = [reqs EXCEPT ![r] =
                     [@ EXCEPT !.pc = "pending", !.user_id = user_id,
                               !.conversation_id_in = Some(conversation_id),
                               !.message = message, !.env = env]]
       /\ UNCHANGED <<convFiles, embFiles, catalog, clock, uuidsUsed, embedCount, db, last>>

SubmitChat == SubmitWith(HeadFaults)

\* A chat request whose matching tail can fail to read the embedding cache
SubmitMatching == SubmitWith({"emb_read1"})

\* Another request is between its submission and its response
OthersInFlight(r) == \E q \in 1..MaxReqs \ {r} : reqs[q].pc \in {"pending", "awaiting"}

\* The request record and the loaded history of request r: made when the
\* handler starts, kept while it is suspended
StartedRequest(r) ==
    IF reqs[r].pc = "pending"
    THEN Request("chat", reqs[r].user_id, reqs[r].conversation_id_in, reqs[r].message,
                 convFiles, embFiles)
    ELSE reqs[r].req

LoadedBy(r) ==
    IF reqs[r].pc = "pending"
    THEN ChatLoad(convFiles, reqs[r].user_id, reqs[r].conversation_id_in,
                  Uuid(uuidsUsed + 1), reqs[r].env.faults)
    ELSE reqs[r].loaded

Suspend(r, req, loaded) ==
    /\ reqs' = [reqs EXCEPT ![r] =
                  [@ EXCEPT !.pc = "awaiting", !.req = req, !.loaded = loaded,
                            !.overlapped = @ \/ OthersInFlight(r)]]
    /\ UNCHANGED <<convFiles, embFiles, clock, embedCount, db, last>>

Respond(r, req, loaded, result) ==
    /\ reqs' = [reqs EXCEPT ![r] =
                  [@ EXCEPT !.pc = "done", !.req = req, !.loaded = loaded,
                            !.overlapped = @ \/ OthersInFlight(r),
                            !.order = clock,
                            !.out = result.out]]
    /\ convFiles' = result.convFiles
    /\ embFiles' = result.embFiles
    /\ last' = result.out
    /\ embedCount' = [j \in DOMAIN embedCount |->
                        embedCount[j] + Cardinality({i \in 1..Len(result.out.embedded) :
                                                       result.out.embedded[i] = j})]
    /\ clock' = clock + 1

RunFrom(r, req, loaded) ==
    IF reqs[r].pc = "pending" /\ SuspendsAtReply
    THEN Suspend(r, req, loaded)
    ELSE Respond(r, req, loaded,
                 ChatRest(convFiles, embFiles, catalog, clock, req, loaded, reqs[r].env))

\* The event loop runs the handler of request r up to its next suspension
\* or to its response
RunChat ==
    \E r \in 1..MaxReqs :
       /\ reqs[r].pc \in {"pending", "awaiting"}
       /\ RunFrom(r, StartedRequest(r), LoadedBy(r))
       /\ UNCHANGED <<catalog, uuidsUsed, db>>

NextConc == SubmitChat \/ RunChat

SpecConc == InitConc /\ [][NextConc]_vars

\* Concurrent chat turns whose matching runs against a cold embedding cache
NextMatchConc == SubmitMatching \/ RunChat

SpecMatchConc == InitConc /\ [][NextMatchConc]_vars

----------------------------------------------------------------------------
(* The query vectorizer on its own: create_search_query_embedding applied to
   profiles over the facets of the extraction prompt
   (openai_service.py:101-122) *)

ListKeys == {"location", "employment_types", "job_categories", "skills",
             "tech_stack", "industry", "work_style_preferences", "priorities"}
StrKeys == {"company_size", "career_goals"}
NumKeys == {"salary_min", "salary_max", "experience_years"}
BoolKeys == {"remote_work"}
InclusionKeys == ListKeys \cup StrKeys \cup NumKeys \cup BoolKeys
ExclusionKeys == {"excluded_job_categories", "excluded_skills",
                  "excluded_industries", "excluded_company_types"}

FacetValues(key) ==
    IF key = "job_categories"
    THEN {Null, ListOf(<<>>), ListOf(<<"Sales">>), ListOf(<<"engineer", "sales">>),
          Num("3"), Str("engineer")}
    ELSE IF key = "location"
    THEN {Null, ListOf(<<>>), ListOf(<<"Tokyo">>), ListOf(<<"osaka", "tokyo">>)}
    ELSE IF key = "employment_types"
    THEN {Null, ListOf(<<>>), ListOf(<<"full_time">>), ListOf(<<"contract", "full_time">>)}
    ELSE IF key = "excluded_company_types"
    THEN {Null, ListOf(<<>>), ListOf(<<"startup">>), ListOf(<<"agency", "startup">>)}
    ELSE IF key \in ListKeys \cup ExclusionKeys
    THEN {Null, ListOf(<<>>), ListOf(<<"Sales">>), ListOf(<<"engineer", "sales">>)}
    ELSE IF key \in StrKeys THEN {Null, Str(""), Str("startup")}
    ELSE IF key \in NumKeys THEN {Null, Num("0"), Num("3")}
    ELSE {Null, Bool("true"), Bool("false")}

\* preferences with one more key
Extend(preferences, key, value) ==
    [k \in DOMAIN preferences \cup {key} |-> IF k = key THEN value ELSE preferences[k]]

\* The dicts with at most n of the keys
RECURSIVE ProfilesOver(_, _)
ProfilesOver(keys, n) ==
    IF n = 0 THEN {<<>>}
    ELSE LET smaller == ProfilesOver(keys, n - 1)
         IN  smaller \cup UNION {{Extend(p, k, v) : v \in FacetValues(k)} :
                                   p \in smaller, k \in keys}

Profiles == ProfilesOver(InclusionKeys \cup ExclusionKeys, MaxFacets)
ExclusionProfiles == ProfilesOver(ExclusionKeys, MaxFacets)

\* preferences with its exclusion facets replaced by those of exclusions
WithExclusions(preferences, exclusions) ==
    [k \in (DOMAIN preferences \ ExclusionKeys) \cup DOMAIN exclusions |->
        IF k \in DOMAIN exclusions THEN exclusions[k] ELSE preferences[k]]

InitQuery ==
    /\ convFiles = <<>>
    /\ embFiles = <<>>
    /\ catalog = Catalog
    /\ clock = 1
    /\ uuidsUsed = 0
    /\ reqs = <<>>
    /\ embedCount = [j \in {"j1", "j2"} |-> 0]
    /\ db = EmptyDb
    /\ last = NoOutcome

\* create_search_query_embedding on a profile and on the same profile with
\* other exclusion facets
Vectorize ==
    /\ last.op = "none"
    /\ \E p \in Profiles, e \in ExclusionProfiles :
       /\ last' = [NoOutcome EXCEPT
                     !.op = "query",
                     !.profile = Some(p),
                     !.queryText = QueryText(p),
                     !.queryParts = QueryParts(p),
                     !.queryEmbedding = create_search_query_embedding(p, "s1", FALSE),
                     !.twin = Some([profile |-> WithExclusions(p, e),
                                    queryText |-> QueryText(WithExclusions(p, e))])]
       /\ UNCHANGED <<convFiles, embFiles, catalog, clock, uuidsUsed, reqs, embedCount, db>>

NextQuery == Vectorize

SpecQuery == InitQuery /\ [][NextQuery]_vars

----------------------------------------------------------------------------
(* The ranker on its own: weighted_search applied to query vectors,
   profiles, catalogs and top_k values *)

\* The facets the ranker reads
RankKeys == ExclusionKeys \cup {"location", "employment_types", "remote_work",
                                "salary_min", "salary_max"}
RankProfiles == ProfilesOver(RankKeys, MaxFacets)

\* The items a catalog can hold under an identifier
JobVariants(id) ==
    {[Job(id, "engineer") EXCEPT !.posted_at = 1],
     [Job(id, "Sales") EXCEPT !.posted_at = 2, !.industry = "sales"],
     [Job(id, "engineer") EXCEPT !.posted_at = 2, !.location = "Tokyo",
                                 !.employment_type = "full_time",
                                 !.skills = <<"sales">>],
     [Job(id, "sales manager") EXCEPT !.posted_at = 1, !.skills = <<"sales">>,
                                      !.company_type = "startup", !.remote = TRUE,
                                      !.salary_min = 3, !.salary_max = 3]}

JobIds == <<"j1", "j2", "j3", "j4">>

\* The catalogs of n items, identifiers in the order of JobIds
RECURSIVE CatalogsOf(_)
CatalogsOf(n) ==
    IF n = 0 THEN {<<>>}
    ELSE {Append(c, j) : c \in CatalogsOf(n - 1), j \in JobVariants(JobIds[n])}

RankCatalogs == UNION {CatalogsOf(n) : n \in 0..MaxCatalog}

QueryEmbeddings ==
    {[seed |-> "s1", text |-> <<"job:", "engineer">>],
     [seed |-> "s1", text |-> <<"job:", "sales">>],
     [seed |-> "zero", text |-> <<>>]}

\* The records a warm-up over the catalog leaves in the cache
EmbeddingsOf(job_data_list) ==
    [i \in 1..Len(job_data_list) |->
        [job_id |-> job_data_list[i].id,
         embedding |-> Get(create_embedding(create_job_embedding_text(job_data_list[i]),
                                            "s1", FALSE))]]

InitRank ==
    /\ convFiles = <<>>
    /\ embFiles = <<>>
    /\ catalog = <<>>
    /\ clock = 1
    /\ uuidsUsed = 0
    /\ reqs = <<>>
    /\ embedCount = [j \in {"j1", "j2"} |-> 0]
    /\ db = EmptyDb
    /\ last = NoOutcome

Rank ==
    /\ last.op = "none"
    /\ \E q \in QueryEmbeddings, p \in RankProfiles, c \in RankCatalogs, top_k \in {1, 2, TopK} :
          /\ last' = [NoOutcome EXCEPT
                        !.op = "rank",
                        !.profile = Some(p),
                        !.rankInput = Some([query_embedding |-> q, job_data_list |-> c,
                                            top_k |-> top_k]),
                        !.recommendations =
                            weighted_search(q, EmbeddingsOf(c), c, p, top_k, FALSE)]
          /\ UNCHANGED <<convFiles, embFiles, catalog, clock, uuidsUsed, reqs, embedCount, db>>

NextRank == Rank

SpecRank == InitRank /\ [][NextRank]_vars

----------------------------------------------------------------------------
(* The store under saves of several conversations followed by a listing *)

ListConvIds == {<<"c">>, <<"d">>, <<"b", "_", "c">>}

InitList ==
    /\ convFiles = <<>>
    /\ embFiles = <<>>
    /\ catalog = <<>>
    /\ clock = 1
    /\ uuidsUsed = 0
    /\ reqs = <<>>
    /\ embedCount = [j \in {"j1", "j2"} |-> 0]
    /\ db = EmptyDb
    /\ last = NoOutcome

\* save_conversation without metadata, at time now
ListSave ==
    /\ clock <= MaxSaves
    /\ last.op # "list"
    /\ \E user_id \in StoreUsers, conversation_id \in ListConvIds,
          env \in EnvsOf({"save_open", "save_write"}, {"s1"}) :
          LET saved == save_conversation(convFiles, user_id, conversation_id,
                                         SeedMessages(1), None, clock, env.faults)
              req == Request("save", user_id, Some(conversation_id), "", convFiles, embFiles)
          IN  StoreStep(saved.files,
                        [req EXCEPT !.conversation_id = Some(conversation_id),
                                    !.status = IF saved.raised THEN 500 ELSE 200,
                                    !.saved = IF saved.raised THEN None
                                              ELSE Some(SeedMessages(1)),
                                    !.failed = IF saved.raised THEN {"save"} ELSE {}])

\* get_user_conversations
ListConversations ==
    /\ last.op # "list"
    /\ \E user_id \in StoreUsers \cup {<<"*">>}, env \in EnvsOf(ListFaults, {"s1"}),
          order \in DirOrders(DOMAIN convFiles) :
          LET listed == get_user_conversations(convFiles, user_id, env.faults, order)
              req == Request("list", user_id, None, "", convFiles, embFiles)
          IN  StoreStep(convFiles,
                        [req EXCEPT !.status = 200, !.listing = Some(listed.value),
                                    !.failed = IF listed.failed THEN {"list"} ELSE {}])

NextList == ListSave \/ ListConversations

SpecList == InitList /\ [][NextList]_vars

----------------------------------------------------------------------------
(* applications.py: POST /api/applications and PUT
   /api/applications/{application_id}.  The handlers are coroutines of one
   event loop and share the database; each has its own session.  Rows carry
   the columns the handlers set; the timestamps the server fills in are left
   out. *)

\* applications.py:24
MOCK_USER_ID == "mock-user-id"

ApplyJobIds == {"j1", "j2", "j3"}

\* seed_db.py:157-170  the sample application of another seeker
SeededApplication(seeker_id, job_id) ==
    [id |-> <<"u", "0">>, seeker_id |-> seeker_id, job_id |-> job_id,
     status |-> "interview", status_detail |-> "interview1", status_color |-> "blue",
     resume_submitted |-> "true", notes |-> None]

\* applications.py:163-166  query(Application).filter(seeker_id, job_id).first()
ExistingApplication(applications, seeker_id, job_id) ==
    LET hits == {i \in 1..Len(applications) :
                    /\ applications[i].seeker_id = seeker_id
                    /\ applications[i].job_id = job_id}
    IN  IF hits = {} THEN None
        ELSE Some(applications[CHOOSE i \in hits : \A k \in hits : i <= k])

\* applications.py:175-186  the row of a new application
NewApplication(id, seeker_id, request) ==
    [id |-> id, seeker_id |-> seeker_id, job_id |-> request.jobId,
     status |-> "screening", status_detail |-> "screening", status_color |-> "yellow",
     resume_submitted |-> IF request.resumeSubmitted THEN "true" ELSE "false",
     notes |-> None]

\* applications.py:152-172  the two checks: the status of the HTTPException
\* they raise, 0 when both pass
ApplicationChecks(database, request) ==
    IF request.jobId \notin database.jobs THEN 404
    ELSE IF ~IsNone(ExistingApplication(database.applications, MOCK_USER_ID,
                                        request.jobId))
    THEN 400 ELSE 0

\* applications.py:174-192  add, commit, refresh; an exception of the commit
\* leaves the handler as a 500 and the session is closed without the row
ApplicationInsert(database, request, id, faults) ==
    IF "commit" \in faults
    THEN [db |-> database, status |-> 500]
    ELSE [db |-> [database EXCEPT !.applications =
                     Append(@, NewApplication(id, MOCK_USER_ID, request))],
          status |-> 201]

\* models/application.py:12-18  the values of ApplicationStatus
ApplicationStatuses == {"screening", "interview", "offered", "rejected", "withdrawn"}

\* applications.py:27-36
get_status_color(status) ==
    CASE status = "screening" -> "yellow"
      [] status = "interview" -> "blue"
      [] status = "offered" -> "green"
      [] status = "rejected" -> "red"
      [] status = "withdrawn" -> "gray"
      [] OTHER -> "gray"

\* applications.py:267-279  the row after the assignments of the handler
UpdatedApplication(application, request) ==
    [application EXCEPT
       !.status = IF request.status \in {None, Some("")} THEN @
                  ELSE Get(request.status),
       !.status_color = IF request.status \in {None, Some("")} THEN @
                        ELSE get_status_color(Get(request.status)),
       !.notes = IF IsNone(request.notes) THEN @ ELSE request.notes]

\* update_application (applications.py:235-285): the row of the id that
\* belongs to the seeker, 404 without one; a status that is no value of
\* ApplicationStatus raises 400 before anything is committed; the handler
\* awaits nothing
update_application(database, application_id, request, faults) ==
    LET hits == {i \in 1..Len(database.applications) :
                    /\ database.applications[i].id = application_id
                    /\ database.applications[i].seeker_id = MOCK_USER_ID}
    IN  IF hits = {} THEN [db |-> database, status |-> 404]
        ELSE IF /\ request.status \notin {None, Some("")}
                /\ Get(request.status) \notin ApplicationStatuses
        THEN [db |-> database, status |-> 400]
        ELSE IF "commit" \in faults THEN [db |-> database, status |-> 500]
        ELSE [db |-> [database EXCEPT !.applications =
                         [i \in 1..Len(@) |->
                            IF i = CHOOSE h \in hits : \A k \in hits : h <= k
                            THEN UpdatedApplication(@[i], request) ELSE @[i]]],
              status |-> 200]

\* A handler that awaits the database between its checks and its insert
SuspendsBeforeInsertAwaited == TRUE

\* applications.py:152-190: the queries, add and commit are blocking calls
\* of a synchronous Session, the handler awaits nothing
SuspendsBeforeInsert == FALSE

IdleApplication ==
    [pc |-> "idle", request |-> [jobId |-> "", resumeSubmitted |-> FALSE],
     faults |-> {}, before |-> EmptyDb, after |-> EmptyDb, status |-> 0,
     overlapped |-> FALSE]

InitApply ==
    /\ convFiles = <<>>
    /\ embFiles = <<>>
    /\ catalog = <<>>
    /\ clock = 1
    /\ uuidsUsed = 0
    /\ reqs = [r \in 1..MaxReqs |-> IdleApplication]
    /\ embedCount = [j \in {"j1", "j2"} |-> 0]
    /\ \E jobs \in {{"j1"}, {"j1", "j2"}},
          seeded \in {<<>>, <<SeededApplication("seeker1", "j1")>>,
                      <<SeededApplication(MOCK_USER_ID, "j1")>>} :
          db = [jobs |-> jobs, applications |-> seeded]
    /\ last = NoOutcome

\* The server accepts a request; its handler has not started yet
SubmitApplication ==
    \E r \in 1..MaxReqs, jobId \in ApplyJobIds, resumeSubmitted \in BOOLEAN,
       faults \in FaultSets({"commit"}, MaxFaults) :
       /\ reqs[r].pc = "idle"
       /\ \A q \in 1..MaxReqs : q < r => reqs[q].pc # "idle"
       /\ reqs' = [reqs EXCEPT ![r] =
                     [@ EXCEPT !.pc = "pending",
                               !.request = [jobId |-> jobId,
                                            resumeSubmitted |-> resumeSubmitted],
                               !.faults = faults]]
       /\ UNCHANGED <<convFiles, embFiles, catalog, clock, uuidsUsed, embedCount, db, last>>

SuspendApplication(r) ==
    /\ reqs' = [reqs EXCEPT ![r] =
                  [@ EXCEPT !.pc = "awaiting", !.before = db,
                            !.overlapped = @ \/ OthersInFlight(r)]]
    /\ UNCHANGED <<uuidsUsed, db, last>>

RespondApplication(r, before, result, uuids) ==
    /\ reqs' = [reqs EXCEPT ![r] =
                  [@ EXCEPT !.pc = "done", !.before = before, !.after = result.db,
                            !.status = result.status,
                            !.overlapped = @ \/ OthersInFlight(r)]]
    /\ db' = result.db
    /\ uuidsUsed' = uuids
    /\ last' = [NoOutcome EXCEPT !.op = "apply", !.status = result.status]

RunApplicationFrom(r, checked) ==
    IF reqs[r].pc = "awaiting" \/ (checked = 0 /\ ~SuspendsBeforeInsert)
    THEN RespondApplication(r, IF reqs[r].pc = "awaiting" THEN reqs[r].before ELSE db,
                            ApplicationInsert(db, reqs[r].request, Uuid(uuidsUsed + 1),
                                              reqs[r].faults),
                            uuidsUsed + 1)
    ELSE IF checked = 0
    THEN SuspendApplication(r)
    ELSE RespondApplication(r, db, [db |-> db, status |-> checked], uuidsUsed)

\* The event loop runs the handler of request r up to its next suspension
\* or to its response
RunApplication ==
    \E r \in 1..MaxReqs :
       /\ reqs[r].pc \in {"pending", "awaiting"}
       /\ RunApplicationFrom(r, ApplicationChecks(db, reqs[r].request))
       /\ UNCHANGED <<convFiles, embFiles, catalog, clock, embedCount>>

\* PUT /api/applications/{application_id}, handled in one piece
UpdateApplication ==
    /\ clock <= MaxOps
    /\ \E application_id \in {<<"u", "0">>, Uuid(1), Uuid(2)},
          status \in {None, Some(""), Some("offered"), Some("closed")},
          notes \in {None, Some("n1")},
          faults \in FaultSets({"commit"}, MaxFaults) :
          LET result == update_application(db, application_id,
                                           [status |-> status, notes |-> notes], faults)
          IN  /\ db' = result.db
              /\ last' = [NoOutcome EXCEPT !.op = "update", !.status = result.status]
    /\ clock' = clock + 1
    /\ UNCHANGED <<convFiles, embFiles, catalog, uuidsUsed, reqs, embedCount>>

NextApply == SubmitApplication \/ RunApplication \/ UpdateApplication

SpecApply == InitApply /\ [][NextApply]_vars

----------------------------------------------------------------------------
(* Properties of the chat turn, checked on the request answered last *)

ChatAnswered == last.op = "chat"
ChatSucceeded == last.op = "chat" /\ last.status = 200

\* The file of the conversation the last request worked on
LastFile == FileName(last.user_id, Get(last.conversation_id))

\* The user turn and the assistant turn of the last chat request
LastExchange ==
    <<Message("user", last.message), Message("assistant", Get(last.resp_message))>>

\* The transcript a directory holds under a file name: Some(<<>>) when there
\* is no file, None when the file does not parse
TranscriptIn(files, name) ==
    IF ~Exists(files, name) THEN Some(<<>>) ELSE JsonLoad(files[name].text)

EndsWith(s, t) == Len(s) >= Len(t) /\ SubSeq(s, Len(s) - Len(t) + 1, Len(s)) = t

\* C1: preference extraction is invoked in a chat turn exactly when the
\* transcript, after the turn's user and assistant messages were appended,
\* has at least 6 turns (never below 6, at exactly 6, and at every greater
\* length); a turn that ends in an error invokes no extraction, and no turn
\* invokes it more than once.
C1_ExtractionTrigger ==
    ChatAnswered =>
        /\ Len(last.extractInputs) <= 1
        /\ last.status = 200 =>
              (last.extractInputs # <<>> <=> Len(Get(last.saved)) >= 6)
        /\ last.status # 200 => last.extractInputs = <<>>

C1_Witness ==
    /\ ChatSucceeded
    /\ Len(Get(last.saved)) = 6
    /\ Len(last.extractInputs) = 1

\* C2: every successful chat turn leaves the stored transcript equal to the
\* previously stored transcript (empty if none existed) followed by the
\* user turn and the assistant turn of the request.
C2_TurnAppendsExchange ==
    ChatSucceeded =>
        LET prev == TranscriptIn(last.before, LastFile)
        IN  ~IsNone(prev) =>
               TranscriptIn(convFiles, LastFile) = Some(Get(prev) \o LastExchange)

\* Provider contents that are not a complete JSON object
MalformedContents == {ExtractionContent("truncated"), ExtractionContent("text")}

\* C3: when extraction or the search after it fails in a chat turn, the
\* turn still answers 200 with the conversation id and the reply,
\* recommendations is None or empty, and a provider content that is not a
\* complete JSON object yields no profile at all.
C3_ExtractionFailureNonFatal ==
    (ChatAnswered /\ last.extractInputs # <<>>) =>
        /\ last.status = 200
        /\ ~IsNone(last.conversation_id)
        /\ ~IsNone(last.reply) /\ last.resp_message = last.reply
        /\ (last.providerFailed \cap {"extract", "qembed"} # {}) => last.tail # "ok"
        /\ last.tail # "ok" => last.recommendations \in {None, Some(<<>>)}
        /\ (~IsNone(last.content) /\ Get(last.content) \in MalformedContents) =>
              /\ IsNone(last.profile)
              /\ last.tail = "extract_failed"
              /\ last.recommendations \in {None, Some(<<>>)}

C3_Witness ==
    /\ ChatSucceeded
    /\ last.tail = "extract_failed"
    /\ last.content = Some(ExtractionContent("truncated"))
    /\ last.recommendations = Some(<<>>)

\* C4: when the reply was generated and persisting the transcript then
\* fails, the reply is still returned to the caller.
C4_ReplySurvivesSaveFailure ==
    (ChatAnswered /\ ~IsNone(last.reply) /\ "save" \in last.failed) =>
        (last.status = 200 /\ last.resp_message = last.reply)

\* C6: every transcript or embedding-cache I/O failure during a request is
\* surfaced to the caller as an explicit failure.
C6_StorageFailuresSurface ==
    last.failed # {} => last.status = 500

\* C7: when the provider fails to generate the reply, the chat turn ends in
\* a failure: no reply text is returned and the response is not a success.
C7_ReplyFailureFailsTurn ==
    (ChatAnswered /\ "reply" \in last.providerFailed) =>
        /\ last.status # 200
        /\ IsNone(last.reply)
        /\ IsNone(last.resp_message)
        /\ IsNone(last.saved)

C7_Witness ==
    /\ ChatAnswered
    /\ "reply" \in last.providerFailed
    /\ last.status = 500

NeedsFreshId(conversation_id_in) ==
    IsNone(conversation_id_in) \/ Get(conversation_id_in) = <<>>

\* What both readings of C8 ask of a turn that runs under a new id, and of a
\* turn that runs under the id of the request
UnderFreshId ==
    /\ Get(last.conversation_id) # <<>>
    /\ ~Exists(last.before, LastFile)
    /\ TranscriptIn(convFiles, LastFile) = Some(LastExchange)

UnderGivenId ==
    /\ last.conversation_id = last.conversation_id_in
    /\ Exists(convFiles, LastFile)
    /\ ~IsNone(TranscriptIn(convFiles, LastFile))
    /\ EndsWith(Get(TranscriptIn(convFiles, LastFile)), LastExchange)
    /\ ~Exists(last.before, LastFile) =>
          TranscriptIn(convFiles, LastFile) = Some(LastExchange)
    /\ \A n \in DOMAIN last.before \ {LastFile} :
          Exists(convFiles, n) /\ convFiles[n] = last.before[n]

\* C8 as stated: a turn without a conversation_id runs under a fresh id
\* whose transcript then holds exactly the turn's two messages; a turn with
\* a conversation_id returns that same id and works on its transcript.
C8_AsStated ==
    ChatSucceeded =>
        /\ IsNone(last.conversation_id_in) => UnderFreshId
        /\ ~IsNone(last.conversation_id_in) => UnderGivenId

\* C8 amended: a turn without a conversation_id, or with the empty string as
\* conversation_id, runs under a fresh id whose transcript then holds
\* exactly the turn's two messages; a turn with a non-empty conversation_id
\* returns that same id and reads and writes the transcript file of that id.
C8_ConversationIdResolved ==
    ChatSucceeded =>
        /\ NeedsFreshId(last.conversation_id_in) => UnderFreshId
        /\ ~NeedsFreshId(last.conversation_id_in) => UnderGivenId

C8_Witness ==
    /\ ChatSucceeded
    /\ last.conversation_id_in = Some(<<>>)
    /\ last.conversation_id = Some(Uuid(1))
    /\ TranscriptIn(convFiles, LastFile) = Some(LastExchange)

\* C10: over any sequence of matching requests the provider computes the
\* embedding of a catalog item at most once, and a request that finds the
\* record of an item in the cache neither recomputes nor rewrites it.
C10_EmbeddingOncePerItem ==
    /\ \A j \in DOMAIN embedCount : embedCount[j] <= 1
    /\ \A j \in DOMAIN last.cacheBefore :
          last.cacheBefore[j].complete =>
             /\ \A i \in 1..Len(last.embedCalls) : last.embedCalls[i] # j
             /\ Exists(embFiles, j) /\ embFiles[j] = last.cacheBefore[j]

\* C9: saving a transcript of N turns under (user_id, conversation_id) and
\* then loading the same key, with no write in between, yields the same N
\* turns with the same roles and contents in the same order.
C9_RoundTrip ==
    /\ (last.op = "save" /\ last.status = 200) =>
          LET back == load_conversation(convFiles, last.user_id,
                                        Get(last.conversation_id), {})
          IN  /\ ~back.failed /\ ~IsNone(back.value)
              /\ Get(back.value).messages = Get(last.saved)
    /\ (last.op = "load" /\ ~IsNone(last.prevSaved) /\ last.failed = {}) =>
          /\ ~IsNone(last.loaded)
          /\ Get(last.loaded).messages = Get(last.prevSaved)

C9_Witness ==
    /\ last.op = "load"
    /\ ~IsNone(last.prevSaved)
    /\ ~IsNone(last.loaded)
    /\ Len(Get(last.loaded).messages) = 2
    /\ Get(last.loaded).messages[1] # Get(last.loaded).messages[2]

\* The exchange a finished chat request appended
ExchangeOf(out) ==
    <<Message("user", out.message), Message("assistant", Get(out.resp_message))>>

Served(r) ==
    /\ reqs[r].pc = "done"
    /\ reqs[r].out.status = 200
    /\ reqs[r].out.failed = {}

\* The transcript stored under the key of a finished chat request
StoredFor(files, out) ==
    TranscriptIn(files, FileName(out.user_id, Get(out.conversation_id)))

\* C5: chat turns on the same (user_id, conversation_id) that are in flight
\* at the same time are handled one after the other.  Of two such turns
\* answered one directly after the other, the second stored the transcript
\* the first stored followed by its own exchange, and the transcript the
\* first stored ends with the exchange of the first: both exchanges are in
\* the store, each contiguous, in the order of the answers, and the store
\* holds that transcript until the next answer.
C5_TurnsSerialized ==
    \A r1, r2 \in DOMAIN reqs :
       (r1 # r2 /\ Served(r1) /\ Served(r2)
         /\ reqs[r1].out.conversation_id = reqs[r2].out.conversation_id
         /\ reqs[r1].out.user_id = reqs[r2].out.user_id
         /\ reqs[r2].order = reqs[r1].order + 1) =>
          LET first == Get(reqs[r1].out.saved)
              second == first \o ExchangeOf(reqs[r2].out)
          IN  /\ EndsWith(first, ExchangeOf(reqs[r1].out))
              /\ reqs[r2].out.saved = Some(second)
              /\ reqs[r2].order = clock - 1 =>
                    StoredFor(convFiles, reqs[r2].out) = Some(second)

C5_Witness ==
    /\ Served(1) /\ Served(2)
    /\ reqs[1].overlapped \/ reqs[2].overlapped
    /\ reqs[1].out.message # reqs[2].out.message
    /\ Len(Get(TranscriptIn(convFiles, FileName(<<"a">>, <<"c">>)))) >= 6

\* C11: when matching requests run concurrently against a cold embedding
\* cache, the embedding of a catalog item is computed by the provider and
\* written to the cache at most once across the requests.
C11_ColdCacheSingleCompute ==
    \A j \in DOMAIN embedCount : embedCount[j] <= 1

\* C12: extract-preferences on a (user_id, conversation_id) with no stored
\* transcript answers 404, calls neither the preference extraction nor the
\* search (no query embedding, no warm-up, no ranking) and leaves both
\* stores as they were.
C12_ExtractUnknownIs404 ==
    (last.op = "extract" /\ ~Exists(last.before, LastFile)) =>
        /\ last.status = 404
        /\ last.extractInputs = <<>>
        /\ last.tail = "none"
        /\ last.embedCalls = <<>>
        /\ IsNone(last.preferences) /\ IsNone(last.recommendations)
        /\ convFiles = last.before /\ embFiles = last.cacheBefore

C12_Witness ==
    /\ last.op = "extract"
    /\ ~Exists(last.before, LastFile)
    /\ last.status = 404
    /\ catalog # <<>>

\* The inclusion facets with a matching exclusion facet
FacetPairs ==
    {<<"job_categories", "excluded_job_categories">>,
     <<"skills", "excluded_skills">>,
     <<"industry", "excluded_industries">>}

\* C13: in every profile the preference extraction returns, no term is
\* both in an inclusion facet and in the matching exclusion facet.
C13_FacetsDisjoint ==
    ~IsNone(last.profile) =>
        \A pair \in FacetPairs :
           Terms(Get(last.profile), pair[1]) \cap Terms(Get(last.profile), pair[2]) = {}

\* C14: two profiles that agree on every inclusion facet and differ only
\* in exclusion facets give the same text to the embedding call.
C14_QueryIgnoresExclusions ==
    (last.op = "query" /\ ~IsNone(last.twin)) =>
        ((\A k \in InclusionKeys :
             PrefGet(Get(last.profile), k) = PrefGet(Get(last.twin).profile, k))
          => Get(last.twin).queryText = last.queryText)

C14_Witness ==
    /\ last.op = "query"
    /\ Has(Get(last.profile), "job_categories")
    /\ Has(Get(last.profile), "excluded_skills")
    /\ ~Has(Get(last.twin).profile, "excluded_skills")
    /\ Has(Get(last.twin).profile, "excluded_job_categories")
    /\ ~IsNone(last.queryText)
    /\ Len(Get(last.queryText)) > 4

\* The facets of the fixed order, their labels, and the ones appended twice
FacetOrder == <<"job_categories", "tech_stack", "skills", "industry", "career_goals",
                "work_style_preferences", "location", "company_size",
                "experience_years">>
DoubledFacets == {"job_categories", "tech_stack", "skills"}
FacetLabels == [job_categories |-> "job:", tech_stack |-> "tech:", skills |-> "skill:",
                industry |-> "industry:", career_goals |-> "goal:",
                work_style_preferences |-> "style:", location |-> "location:",
                company_size |-> "size:", experience_years |-> "years"]

\* The profile states the facet with a value that is neither null nor empty
\* nor zero
Present(preferences, key) ==
    /\ key \in DOMAIN preferences
    /\ preferences[key] \notin {Null, ListOf(<<>>), Str(""), Num("0"), Bool("false")}

\* The facets a fragment list is expected to name, from facet i on
RECURSIVE ExpectedFacets(_, _)
ExpectedFacets(preferences, i) ==
    IF i > Len(FacetOrder) THEN <<>>
    ELSE (IF ~Present(preferences, FacetOrder[i]) THEN <<>>
          ELSE IF FacetOrder[i] \in DoubledFacets THEN <<FacetOrder[i], FacetOrder[i]>>
          ELSE <<FacetOrder[i]>>)
         \o ExpectedFacets(preferences, i + 1)

NotComma(token) == token # ","

\* The fragment states the values of the facet: behind the label, or bare
\* (second of a doubled facet), or in front of the unit of the years; of a
\* list facet that holds a string only the label is compared
StatesFacet(fragment, preferences, key, bare) ==
    IF key = "experience_years"
    THEN fragment = preferences[key].items \o <<FacetLabels[key]>>
    ELSE IF key \in ListKeys /\ preferences[key].kind # "list"
    THEN bare \/ Head(fragment) = FacetLabels[key]
    ELSE IF bare THEN SelectSeq(fragment, NotComma) = preferences[key].items
    ELSE /\ Head(fragment) = FacetLabels[key]
         /\ SelectSeq(Tail(fragment), NotComma) = preferences[key].items

\* C24: the fragment list, when one is built, names the present inclusion
\* facets in the fixed order, job categories, tech stack and skills by two
\* fragments (labelled, then bare) and every other facet by one; absent
\* facets by none
C24_FragmentList ==
    (last.op = "query" /\ ~IsNone(last.queryParts)) =>
        LET parts == Get(last.queryParts)
            expected == ExpectedFacets(Get(last.profile), 1)
        IN  /\ Len(parts) = Len(expected)
            /\ \A i \in 1..Len(expected) :
                  StatesFacet(parts[i], Get(last.profile), expected[i],
                              i > 1 /\ expected[i - 1] = expected[i])

\* Job categories of two terms and the years of experience: three fragments
C24_Witness ==
    /\ last.op = "query"
    /\ Present(Get(last.profile), "job_categories")
    /\ Len(Get(last.profile)["job_categories"].items) = 2
    /\ Present(Get(last.profile), "experience_years")
    /\ Len(Get(last.queryParts)) = 3

\* C25: when no inclusion facet of the vectorizer yields text, the text
\* handed to the embedding call is the fallback string, it is not empty, and
\* the call returns the vector of that string
C25_FallbackQuery ==
    (last.op = "query" /\ \A i \in 1..Len(FacetOrder) :
                             ~Present(Get(last.profile), FacetOrder[i])) =>
        /\ last.queryText = Some(<<"fallback">>)
        /\ ~IsNone(last.queryEmbedding)
        /\ Get(last.queryEmbedding).text = <<"fallback">>
        /\ Get(last.queryEmbedding).seed # "zero"

\* A profile whose facets are stated as null, empty or zero
C25_Witness ==
    /\ last.op = "query"
    /\ DOMAIN Get(last.profile) = {"job_categories", "experience_years"}
    /\ Get(last.profile)["job_categories"] = ListOf(<<>>)
    /\ Get(last.profile)["experience_years"] = Num("0")
    /\ last.queryParts = Some(<<>>)
    /\ last.queryText = Some(<<"fallback">>)

----------------------------------------------------------------------------
(* Properties of the ranker *)

\* The catalog item a recommendation names
RankedJob(rec) ==
    LET c == Get(last.rankInput).job_data_list
    IN  c[CHOOSE i \in 1..Len(c) : c[i].id = rec.job_id]

\* The base score of an item under the query of the call
BaseOf(job) ==
    BaseScore(Cos100(VectorOf(Get(last.rankInput).query_embedding),
                     VectorOf(Get(create_embedding(create_job_embedding_text(job),
                                                   "s1", FALSE)))))

\* The attribute values of an item that an exclusion facet is matched against
ExcludedAttrs(job) ==
    [excluded_job_categories |-> {job.category},
     excluded_skills |-> Range(job.skills),
     excluded_industries |-> {job.industry},
     excluded_company_types |-> {job.company_type}]

\* Some term of some exclusion facet matches the item
HitsExclusion(preferences, job) ==
    \E key \in ExclusionKeys :
        \E t \in Terms(preferences, key), a \in ExcludedAttrs(job)[key] : TermMatches(t, a)

\* C15: no recommendation names an item whose category, skills, industry or
\* company type matches a term of an exclusion facet of the profile,
\* whatever its similarity to the query
C15_ExclusionAbsolute ==
    (last.op = "rank" /\ ~IsNone(last.recommendations)) =>
        \A i \in 1..Len(Get(last.recommendations)) :
            ~HitsExclusion(Get(last.profile), RankedJob(Get(last.recommendations)[i]))

\* An item of base score 100 that matches an excluded skill, company type
\* or industry is left out while an item of a lower score is recommended
C15_Witness ==
    /\ last.op = "rank"
    /\ ~IsNone(last.recommendations)
    /\ Len(Get(last.recommendations)) >= 1
    /\ LET in == Get(last.rankInput)
           c == in.job_data_list
       IN  \E i \in 1..Len(c) :
              /\ HitsExclusion(Get(last.profile), c[i])
              /\ ~ExcludedByCategoryOnly(Get(last.profile), c[i])
              /\ BaseOf(c[i]) = 100
              /\ Get(last.recommendations)[1].score < 100
              /\ \A k \in 1..Len(Get(last.recommendations)) :
                    Get(last.recommendations)[k].job_id # c[i].id

\* C16: every recommended score lies in [0, 100]
C16_ScoreBounds ==
    (last.op = "rank" /\ ~IsNone(last.recommendations)) =>
        \A i \in 1..Len(Get(last.recommendations)) :
            /\ Get(last.recommendations)[i].score >= 0
            /\ Get(last.recommendations)[i].score <= 100

\* An item of base score 100 that earns a boost is recommended with 100
C16_Witness ==
    /\ last.op = "rank"
    /\ ~IsNone(last.recommendations)
    /\ \E i \in 1..Len(Get(last.recommendations)) :
          LET rec == Get(last.recommendations)[i]
              job == RankedJob(rec)
          IN  /\ BaseOf(job) = 100
              /\ Boost(Get(last.profile), job) > 0
              /\ rec.score = 100

\* C17: recommendations come in descending score, equal scores by more
\* recent posting and then by identifier, and there are at most
\* min(top_k, size of the catalog) of them
C17_RankOrder ==
    (last.op = "rank" /\ ~IsNone(last.recommendations)) =>
        LET recs == Get(last.recommendations)
            in == Get(last.rankInput)
        IN  /\ Len(recs) <= in.top_k
            /\ Len(recs) <= Len(in.job_data_list)
            /\ \A i \in 1..Len(recs), k \in 1..Len(recs) :
                  i < k =>
                     \/ recs[i].score > recs[k].score
                     \/ /\ recs[i].score = recs[k].score
                        /\ RankedJob(recs[i]).posted_at > RankedJob(recs[k]).posted_at
                     \/ /\ recs[i].score = recs[k].score
                        /\ RankedJob(recs[i]).posted_at = RankedJob(recs[k]).posted_at
                        /\ IdRank(recs[i].job_id) < IdRank(recs[k].job_id)

\* Two of three items are recommended, of equal score, the more recent one
\* first although the catalog lists it second
C17_Witness ==
    /\ last.op = "rank"
    /\ ~IsNone(last.recommendations)
    /\ LET recs == Get(last.recommendations)
           in == Get(last.rankInput)
       IN  /\ Len(in.job_data_list) = 3
           /\ in.top_k = 2
           /\ Len(recs) = 2
           /\ recs[1].score = recs[2].score
           /\ RankedJob(recs[1]).posted_at > RankedJob(recs[2]).posted_at
           /\ IdRank(recs[1].job_id) > IdRank(recs[2].job_id)

----------------------------------------------------------------------------
(* Properties of the listing *)

\* C18: a listing is ordered by updated_at, the most recently updated
\* conversation first, whatever saves came before it
C18_ListingOrder ==
    (last.op = "list" /\ ~IsNone(last.listing)) =>
        LET listing == Get(last.listing)
        IN  \A i \in 1..Len(listing), k \in 1..Len(listing) :
               i < k => listing[i].updated_at >= listing[k].updated_at

\* Three saves, the first conversation saved again after the second one, and
\* the listing names the first conversation ahead of the second
C18_Witness ==
    /\ last.op = "list"
    /\ ~IsNone(last.listing)
    /\ Len(Get(last.listing)) = 2
    /\ Get(last.listing)[1].conversation_id = <<"c">>
    /\ Get(last.listing)[1].updated_at = 3
    /\ Get(last.listing)[2].conversation_id = <<"d">>
    /\ Get(last.listing)[2].updated_at = 2

----------------------------------------------------------------------------
(* Properties of the stored transcripts across turns *)

\* Even length, roles user, assistant, user, assistant, ...
Alternates(messages) ==
    /\ Len(messages) % 2 = 0
    /\ \A i \in 1..Len(messages) :
          messages[i].role = IF i % 2 = 1 THEN "user" ELSE "assistant"

\* C19: every transcript the store holds, and every transcript a chat turn
\* handed to a save that returned, has even length and alternates user and
\* assistant turns starting with user, whatever turns succeeded or failed
\* before
C19_TranscriptsAlternate ==
    /\ \A name \in DOMAIN convFiles :
          LET stored == JsonLoad(convFiles[name].text)
          IN  ~IsNone(stored) => Alternates(Get(stored))
    /\ (ChatAnswered /\ ~IsNone(last.saved)) => Alternates(Get(last.saved))

\* A turn whose save failed mid-write left the file unreadable, and the
\* turn after it stored one exchange
C19_Witness ==
    /\ ChatSucceeded
    /\ Exists(last.before, LastFile)
    /\ IsNone(TranscriptIn(last.before, LastFile))
    /\ TranscriptIn(convFiles, LastFile) = Some(LastExchange)

\* C20: when the save of a chat turn fails after its reply was generated,
\* the successful turn that follows on the same conversation stores a
\* transcript that ends with the exchange of the failed turn followed by
\* its own exchange
C20_FailedSaveRetried ==
    [][(/\ last.op = "chat"
        /\ ~IsNone(last.reply)
        /\ "save" \in last.failed
        /\ last'.op = "chat"
        /\ last'.status = 200
        /\ last'.user_id = last.user_id
        /\ last'.conversation_id = last.conversation_id)
       => LET stored == TranscriptIn(convFiles', FileName(last.user_id,
                                                          Get(last.conversation_id)))
              lost == <<Message("user", last.message),
                        Message("assistant", Get(last.reply))>>
              new == <<Message("user", last'.message),
                       Message("assistant", Get(last'.resp_message))>>
          IN  /\ ~IsNone(stored)
              /\ EndsWith(Get(stored), lost \o new)]_vars

----------------------------------------------------------------------------
(* Properties of the storage keys *)

\* C21: a save under one (user_id, conversation_id) leaves what
\* load_conversation returns for every other pair as it was, also for ids
\* that contain "_"
C21_PairsIndependent ==
    [][last'.op = "save" =>
          \A user_id \in StoreUsers, conversation_id \in StoreConvIds :
             <<user_id, conversation_id>> # <<last'.user_id, Get(last'.conversation_id)>>
             => load_conversation(convFiles', user_id, conversation_id, {})
                  = load_conversation(convFiles, user_id, conversation_id, {})]_vars

\* C27: a listing for user_id holds only transcripts saved under that
\* user_id, also when another user id extends it with "_"
C27_ListingOwnOnly ==
    (last.op = "list" /\ ~IsNone(last.listing)) =>
        \A i \in 1..Len(Get(last.listing)) :
            Get(last.listing)[i].user_id = last.user_id

----------------------------------------------------------------------------
(* Properties of the matching requests *)

\* A request that ran the search to its end with no failing storage or
\* provider call
Matched ==
    /\ last.op \in {"chat", "extract"}
    /\ last.tail = "ok"
    /\ last.failed = {}
    /\ last.providerFailed = {}

\* C22: after a matching request every catalog item has a complete
\* embedding record, also when the request found the cache partially
\* populated
C22_WarmupFillsMissing ==
    Matched =>
        \A i \in 1..Len(catalog) :
            /\ Exists(embFiles, catalog[i].id)
            /\ embFiles[catalog[i].id].complete

\* C23: an extraction in a chat turn runs after the save of the turn
\* returned, and the completion is asked over the whole transcript the save
\* stored: the system prompt, every stored turn up to the reply of this
\* request, the closing instruction
C23_ExtractsWholeTranscript ==
    (ChatAnswered /\ ~IsNone(last.extractPrompt)) =>
        /\ ~IsNone(last.saved)
        /\ "save" \notin last.failed
        /\ TranscriptIn(convFiles, LastFile) = last.saved
        /\ EndsWith(Get(last.saved), LastExchange)
        /\ Get(last.extractPrompt)
             = <<Message("system", "system_prompt")>>
               \o Get(last.saved)
               \o <<Message("user", "closing_instruction")>>

\* The second extraction of a conversation: the transcript had 6 turns
\* before the request and the completion is asked over all 8
C23_Witness ==
    /\ ChatSucceeded
    /\ ~IsNone(last.extractPrompt)
    /\ TranscriptIn(last.before, LastFile) = Some(SeedMessages(3))
    /\ Len(Get(last.extractPrompt)) = 10

\* A request that extracted a profile and went on to the search
Searched ==
    /\ last.op \in {"chat", "extract"}
    /\ last.extractInputs # <<>>
    /\ ~IsNone(last.profile)

\* Every item of the catalog matches an exclusion facet of the profile
AllExcluded ==
    \A i \in 1..Len(catalog) : HitsExclusion(Get(last.profile), catalog[i])

\* C26: over an empty catalog, or a catalog whose items are all excluded by
\* the profile, a request that searches answers 200 with an empty
\* recommendation list; the chat turn returns its reply and the
\* extract-preferences operation its profile
C26_EmptyResultNoError ==
    (Searched /\ AllExcluded) =>
        /\ last.status = 200
        /\ last.recommendations = Some(<<>>)
        /\ last.op = "chat" => (~IsNone(last.reply) /\ last.resp_message = last.reply)
        /\ last.op = "extract" => last.preferences = last.profile

\* A chat turn over a catalog of two items with their embeddings in the
\* cache, both excluded by the profile
C26_Witness ==
    /\ ChatSucceeded
    /\ Searched
    /\ catalog = Catalog
    /\ AllExcluded
    /\ last.tail = "ok"
    /\ \A i \in 1..Len(catalog) :
          Exists(embFiles, catalog[i].id) /\ embFiles[catalog[i].id].complete
    /\ last.recommendations = Some(<<>>)

\* C28: a chat turn whose reply generation failed writes nothing: the
\* conversation directory, and with it the transcript of the conversation,
\* is as the request found it; the user message is not stored on its own
C28_FailedReplyWritesNothing ==
    (ChatAnswered /\ "reply" \in last.providerFailed) =>
        /\ convFiles = last.before
        /\ TranscriptIn(convFiles, LastFile) = TranscriptIn(last.before, LastFile)
        /\ IsNone(last.saved)

\* The reply fails in a turn on a conversation of two stored exchanges
C28_Witness ==
    /\ ChatAnswered
    /\ "reply" \in last.providerFailed
    /\ last.status = 500
    /\ last.message = "m2"
    /\ TranscriptIn(last.before, LastFile) = Some(SeedMessages(2))
    /\ TranscriptIn(convFiles, LastFile) = Some(SeedMessages(2))

\* C29: in a successful chat response recommendations is None exactly when
\* the transcript stored by the turn has fewer than 6 turns; from 6 turns on
\* it is a list, and the list is empty when extraction or search failed
C29_RecommendationsPresence ==
    ChatSucceeded =>
        LET stored == TranscriptIn(convFiles, LastFile)
        IN  /\ ~IsNone(stored)
            /\ IsNone(last.recommendations) <=> Len(Get(stored)) < 6
            /\ (/\ Len(Get(stored)) >= 6
                /\ \/ last.tail \in {"extract_failed", "search_failed"}
                   \/ last.providerFailed \cap {"extract", "qembed"} # {})
               => last.recommendations = Some(<<>>)

\* The sixth turn is stored and the search after the extraction fails
C29_Witness ==
    /\ ChatSucceeded
    /\ TranscriptIn(convFiles, LastFile) = Some(Get(last.saved))
    /\ Len(Get(last.saved)) = 6
    /\ last.tail = "search_failed"
    /\ last.recommendations = Some(<<>>)

----------------------------------------------------------------------------
(* Properties of the applications *)

RowsOf(applications, seeker_id, job_id) ==
    {i \in 1..Len(applications) : /\ applications[i].seeker_id = seeker_id
                                  /\ applications[i].job_id = job_id}

Applied(r) == reqs[r].pc = "done"

\* C30: whatever the order in which create_application requests arrive and
\* are handled, the applications table holds at most one row per
\* (seeker_id, job_id); a request for a job the seeker has an application
\* for is answered 400, a request for a job that does not exist is answered
\* 404, and neither adds a row.
C30_OneApplicationPerPair ==
    /\ \A seeker_id \in {MOCK_USER_ID, "seeker1"}, job_id \in ApplyJobIds :
          Cardinality(RowsOf(db.applications, seeker_id, job_id)) <= 1
    /\ \A r \in DOMAIN reqs :
          Applied(r) =>
             /\ reqs[r].request.jobId \notin reqs[r].before.jobs =>
                   reqs[r].status = 404 /\ reqs[r].after = reqs[r].before
             /\ (/\ reqs[r].request.jobId \in reqs[r].before.jobs
                 /\ RowsOf(reqs[r].before.applications, MOCK_USER_ID,
                           reqs[r].request.jobId) # {}) =>
                   reqs[r].status = 400 /\ reqs[r].after = reqs[r].before

\* Two requests for the same job were in flight together: one created the
\* row, the other was answered 400
C30_Witness ==
    /\ Applied(1) /\ Applied(2)
    /\ reqs[1].overlapped \/ reqs[2].overlapped
    /\ reqs[1].request.jobId = reqs[2].request.jobId
    /\ {reqs[1].status, reqs[2].status} = {201, 400}
    /\ Cardinality(RowsOf(db.applications, MOCK_USER_ID, reqs[1].request.jobId)) = 1

====
